---- MODULE Spec2Model ----
(***************************************************************************)
(* Model of the Tunisian-data-collection pipeline: the three collectors   *)
(* (YouTube, Twitter, Reddit), the command line session of collect.py, the *)
(* batch-file reader of merge_collected_data.py and the merge of           *)
(* merge_datasets.py.  Text is a sequence of one-character strings so that *)
(* stripping and emptiness are computed, not assumed.                      *)
(***************************************************************************)
EXTENDS Integers, Sequences, FiniteSets, TLC

\* ------------------------------------------------------------------ bounds
MaxLimit == 3
BigLimit == 20
MaxPage == 2
MaxItems == 3
MaxKeywords == 3
MaxFound == 1
MaxCalls == 3
ApiMaxLimit == 1
ApiMaxKeywords == 1
MaxFiles == 2
MaxLines == 2
MaxExcelRows == 2
MaxHostedRows == 1
MaxMergeLines == 1

\* ------------------------------------------------------- program constants
PageCap == 100
MaxVideos == 10
PostDivisor == 10

None == "None"
Platforms == {"youtube", "twitter", "reddit"}
AllPlatforms == <<"youtube", "twitter", "reddit">>

\* ------------------------------------------------------------------- text
Empty == <<>>
Blank == <<" ">>
Hi == <<"h", "i">>
Deleted == <<"[", "d", "e", "l", "e", "t", "e", "d", "]">>
Removed == <<"[", "r", "e", "m", "o", "v", "e", "d", "]">>
Whitespace == {" ", "\t", "\n"}

RECURSIVE lstrip(_)
lstrip(s) ==
  IF s # <<>> /\ Head(s) \in Whitespace THEN lstrip(Tail(s)) ELSE s

RECURSIVE rstrip(_)
rstrip(s) ==
  IF s # <<>> /\ s[Len(s)] \in Whitespace
  THEN rstrip(SubSeq(s, 1, Len(s) - 1)) ELSE s

strip(s) == rstrip(lstrip(s))

Min(a, b) == IF a < b THEN a ELSE b
Max(a, b) == IF a > b THEN a ELSE b
Take(s, n) == SubSeq(s, 1, Min(Len(s), n))

RECURSIVE SelectRecords(_, _)
SelectRecords(s, keep) ==
  IF s = <<>> THEN <<>>
  ELSE (IF keep[1] THEN <<Head(s)>> ELSE <<>>)
       \o SelectRecords(Tail(s), Tail(keep))

Range(s) == {s[i] : i \in 1..Len(s)}

SeqsUpTo(S, n) == UNION {[1..k -> S] : k \in 0..n}

\* ---------------------------------------------------------- the upstreams
Texts == {Empty, Blank, Hi}
ForumBodies == {Empty, Hi, Deleted, Removed}
ErrorStatus == {403, 404, 500}
Result(status) == IF status = 200 THEN "ok" ELSE "error"

\* upstream items carry platform-native identifiers, distinct within a call
MkItems(texts, base) ==
  [i \in 1..Len(texts) |->
     [id |-> "c" \o ToString(base + i), text |-> texts[i]]]

KeywordList(n) == [i \in 1..n |-> "k" \o ToString(i)]

\* -------------------------------------------------------------- variables
VARIABLES
  pc,               \* position of the driver (command line run or API user)
  args,             \* parsed command line arguments
  Config,           \* state of each platform's credentials
  platIdx,          \* index of the platform the run is at
  attempted,        \* platforms whose loop iteration has begun, in order
  all_stats,        \* statistics entries gathered by main
  files,            \* batch files written under collected_data/
  exit_code,        \* process exit status, -1 while the process runs
  handle,           \* per adapter: the client handle is set
  collected_data,   \* per adapter: the accumulation buffer
  call,             \* the collect call in progress (or the last one)
  cpc,              \* position inside the collect call
  ret,              \* value returned by the last finished collect call
  comments,         \* keyword mode: records gathered over the fan-out
  found,            \* keyword mode: discovered items, in discovery order
  fidx,             \* keyword mode: index of the item being fetched
  kidx,             \* keyword mode: index of the keyword being searched
  vcomments,        \* records of the item fetch in progress
  reqs,             \* upstream requests issued by the current call
  authLog,          \* outcomes of authenticate() in the current call
  fetchLog,         \* keyword mode: item fetches started, with budget
  ncalls,           \* number of collect calls started by the API user
  mpc,              \* position of the merge tool, "off" when none runs
  tool,             \* the merge tool: merge_datasets or merge_collected_data
  origins,          \* the spreadsheet and the two hosted corpora, as found
  directory,        \* the batch directory: its files, line by line
  fileIdx,          \* process_jsonl_files: index of the file being read
  lineIdx,          \* process_jsonl_files: index of the line being read
  processed_data,   \* process_jsonl_files: rows made so far
  lineLog,          \* process_jsonl_files: what became of each line read
  dfs,              \* merge_all_datasets: the table made from each origin
  final_df,         \* the table the tool ends with
  written           \* the file the tool wrote: none, xlsx, csv or failed

vars == <<pc, args, Config, platIdx, attempted, all_stats, files, exit_code,
          handle,
          collected_data, call, cpc, ret, comments, found, fidx, kidx,
          vcomments, reqs, authLog, fetchLog, ncalls,
          mpc, tool, origins, directory, fileIdx, lineIdx, processed_data,
          lineLog, dfs, final_df, written>>

mergeVars == <<mpc, tool, origins, directory, fileIdx, lineIdx,
               processed_data, lineLog, dfs, final_df, written>>

driverVars == <<args, Config, platIdx, attempted, all_stats, files,
                exit_code, ncalls, mergeVars>>
fanVars == <<comments, found, fidx, kidx, fetchLog>>

\* records the current call has gathered so far; an upstream object holds
\* at most MaxItems more than that
Gathered == Len(comments) + Len(vcomments)
Room == MaxItems - Gathered

NoCall == [p |-> None, op |-> None, source_id |-> None, id_type |-> None,
           limit |-> 0, keywords |-> <<>>, subreddit |-> None]

\* ------------------------------------------------------------ utils/config
CredVars(p) ==
  CASE p = "youtube" -> <<"YOUTUBE_API_KEY">>
    [] p = "twitter" -> <<"TWITTER_API_KEY", "TWITTER_API_SECRET",
                          "TWITTER_ACCESS_TOKEN", "TWITTER_ACCESS_SECRET">>
    [] p = "reddit"  -> <<"REDDIT_CLIENT_ID", "REDDIT_CLIENT_SECRET",
                          "REDDIT_USER_AGENT">>

\* all([...]) over a platform's credential variables
creds_present(cfg, p) ==
  \A i \in 1..Len(CredVars(p)) : cfg[CredVars(p)[i]] # None

\* the credentials are set, but the remote service does not accept them
creds_rejected(cfg, p) ==
  /\ creds_present(cfg, p)
  /\ \E i \in 1..Len(CredVars(p)) : cfg[CredVars(p)[i]] = "bad"

validate_config_any(cfg) ==
  LET unset(p) == \A i \in 1..Len(CredVars(p)) : cfg[CredVars(p)[i]] = None
  IN (IF unset("youtube") THEN CredVars("youtube") ELSE <<>>)
     \o (IF unset("twitter") THEN CredVars("twitter") ELSE <<>>)
     \o (IF unset("reddit") THEN CredVars("reddit") ELSE <<>>)

\* the names validate_config puts in its error message; empty: no error
validate_config(cfg) ==
  (IF ~creds_present(cfg, "youtube") THEN CredVars("youtube") ELSE <<>>)
  \o (IF ~creds_present(cfg, "twitter") THEN CredVars("twitter") ELSE <<>>)
  \o (IF ~creds_present(cfg, "reddit") THEN CredVars("reddit") ELSE <<>>)

\* per platform: all good, all set but rejected, all unset, first one unset
PlatformCreds(p) ==
  LET vs == {CredVars(p)[i] : i \in 1..Len(CredVars(p))} IN
  { [v \in vs |-> "good"], [v \in vs |-> "bad"], [v \in vs |-> None],
    [v \in vs |-> IF v = CredVars(p)[1] THEN None ELSE "good"] }

Configs ==
  { [v \in {"YOUTUBE_API_KEY", "TWITTER_API_KEY", "TWITTER_API_SECRET",
            "TWITTER_ACCESS_TOKEN", "TWITTER_ACCESS_SECRET",
            "REDDIT_CLIENT_ID", "REDDIT_CLIENT_SECRET", "REDDIT_USER_AGENT"}
       |-> IF v \in DOMAIN y THEN y[v]
           ELSE IF v \in DOMAIN t THEN t[v] ELSE r[v]] :
    y \in PlatformCreds("youtube"), t \in PlatformCreds("twitter"),
    r \in PlatformCreds("reddit") }

\* ------------------------------------------------------- collect.py: args
\* the forum adapter searches limit // 10 posts, so that its fan-out needs a
\* limit of 10 per keyword at least; the other platforms get small limits
Limits(pl) ==
  (0..MaxLimit) \cup (IF pl = "reddit" THEN {BigLimit} ELSE {})

IdArgs ==
  UNION { { [platform |-> pl, mode |-> "id", limit |-> l, video_id |-> v,
     username |-> u, tweet_id |-> t, post_id |-> po, keywords |-> <<>>,
     subreddit |-> "all", output_format |-> "jsonl"] :
    l \in Limits(pl), v \in {None, "vid0"}, u \in {None, "user0"},
    t \in {None, "tweet0"}, po \in {None, "post0"} } :
    pl \in Platforms \cup {"all"} }

KeywordArgs ==
  UNION { { [platform |-> pl, mode |-> "keywords", limit |-> l,
     video_id |-> None,
     username |-> None, tweet_id |-> None, post_id |-> None,
     keywords |-> KeywordList(n), subreddit |-> s,
     output_format |-> "jsonl"] :
    l \in Limits(pl), n \in 0..MaxKeywords, s \in {"all", ""} } :
    pl \in Platforms \cup {"all"} }

\* identifiers of platforms that were not selected are left out
CliArgs ==
  { a \in IdArgs :
      /\ a.platform \notin {"youtube", "all"} => a.video_id = None
      /\ a.platform \notin {"twitter", "all"} =>
           a.username = None /\ a.tweet_id = None
      /\ a.platform \notin {"reddit", "all"} => a.post_id = None }
  \cup { a \in KeywordArgs : a.platform # "reddit" => a.subreddit = "all" }

validate_args(a) ==
  (IF a.mode = "id"
   THEN IF a.platform = "youtube" /\ a.video_id = None
        THEN <<"--video-id required for YouTube in ID mode">>
        ELSE IF a.platform = "twitter" /\ a.username = None
                /\ a.tweet_id = None
        THEN <<"--username or --tweet-id required for Twitter in ID mode">>
        ELSE IF a.platform = "reddit" /\ a.post_id = None
        THEN <<"--post-id required for Reddit in ID mode">>
        ELSE <<>>
   ELSE <<>>)
  \o (IF a.mode = "keywords"
      THEN (IF a.keywords = <<>>
            THEN <<"--keywords required for keywords mode">> ELSE <<>>)
           \o (IF a.platform = "reddit" /\ a.subreddit = ""
               THEN <<"--subreddit recommended for Reddit keywords mode">>
               ELSE <<>>)
      ELSE <<>>)

platforms(a) ==
  IF a.platform # "all" THEN <<a.platform>> ELSE AllPlatforms

\* the collect call collect_data makes for one platform
collect_data(platform, a) ==
  IF a.mode = "id"
  THEN CASE platform = "youtube" ->
              [p |-> platform, op |-> "id", source_id |-> a.video_id,
               id_type |-> None, limit |-> a.limit, keywords |-> <<>>,
               subreddit |-> None]
         [] platform = "twitter" ->
              IF a.username # None
              THEN [p |-> platform, op |-> "id", source_id |-> a.username,
                    id_type |-> "username", limit |-> a.limit,
                    keywords |-> <<>>, subreddit |-> None]
              ELSE [p |-> platform, op |-> "id", source_id |-> a.tweet_id,
                    id_type |-> "tweet_id", limit |-> a.limit,
                    keywords |-> <<>>, subreddit |-> None]
         [] platform = "reddit" ->
              [p |-> platform, op |-> "id", source_id |-> a.post_id,
               id_type |-> None, limit |-> a.limit, keywords |-> <<>>,
               subreddit |-> None]
  ELSE [p |-> platform, op |-> "keywords", source_id |-> None,
        id_type |-> None, limit |-> a.limit, keywords |-> a.keywords,
        subreddit |-> IF platform = "reddit" THEN a.subreddit ELSE None]

\* ------------------------------------------------------------------ Init
InitAdapters ==
  /\ handle = [p \in Platforms |-> FALSE]
  /\ collected_data = [p \in Platforms |-> <<>>]
  /\ call = NoCall
  /\ cpc = "idle"
  /\ ret = <<>>
  /\ comments = <<>>
  /\ found = <<>>
  /\ fidx = 1
  /\ kidx = 1
  /\ vcomments = <<>>
  /\ reqs = <<>>
  /\ authLog = <<>>
  /\ fetchLog = <<>>

\* no merge tool runs
MergeOff ==
  /\ mpc = "off"
  /\ tool = None
  /\ origins = [excel |-> [status |-> "missing", rows |-> <<>>],
                arsas |-> [status |-> "failed", rows |-> <<>>],
                tsac |-> [status |-> "failed", rows |-> <<>>]]
  /\ directory = [exists |-> FALSE, files |-> <<>>]
  /\ fileIdx = 1
  /\ lineIdx = 1
  /\ processed_data = <<>>
  /\ lineLog = <<>>
  /\ dfs = [excel |-> <<>>, arsas |-> <<>>, tsac |-> <<>>, jsonl |-> <<>>]
  /\ final_df = <<>>
  /\ written = "none"

\* a command line run of collect.py
Init ==
  /\ pc = "validate_args"
  /\ args \in CliArgs
  /\ Config \in Configs
  /\ platIdx = 1
  /\ attempted = <<>>
  /\ all_stats = <<>>
  /\ files = <<>>
  /\ exit_code = -1
  /\ ncalls = 0
  /\ InitAdapters
  /\ MergeOff

\* -------------------------------------------------- entering and returning
Body(c) ==
  CASE c.p = "youtube" /\ c.op = "id"       -> "yt_enter"
    [] c.p = "youtube" /\ c.op = "keywords" -> "yt_search"
    [] c.p = "twitter" /\ c.op = "id"       -> "tw_id"
    [] c.p = "twitter" /\ c.op = "keywords" -> "tw_search"
    [] c.p = "reddit"  /\ c.op = "id"       -> "rd_id"
    [] c.p = "reddit"  /\ c.op = "keywords" -> "rd_search"

\* a collect call begins: its locals and the per-call logs are fresh
StartCall(c) ==
  /\ call' = c
  /\ cpc' = "enter"
  /\ ret' = <<>>
  /\ comments' = <<>>
  /\ found' = <<>>
  /\ fidx' = 1
  /\ kidx' = 1
  /\ vcomments' = <<>>
  /\ reqs' = <<>>
  /\ authLog' = <<>>
  /\ fetchLog' = <<>>

\* the collect call hands result back to whoever called it
Return_nothing(result) ==
  /\ ret' = <<>>
  /\ cpc' = "idle"
  /\ pc' = IF pc = "collecting" THEN "collected" ELSE "api_idle"

Return(result) ==
  /\ ret' = result
  /\ cpc' = "idle"
  /\ pc' = IF pc = "collecting" THEN "collected" ELSE "api_idle"

\* authenticate(): the credentials must be present and the client built
authenticate(cfg, p, ctor_ok) == creds_present(cfg, p) /\ ctor_ok

must_authenticate_always(h) == TRUE

\* "if not self.<client>:" at the head of every collect call
must_authenticate(h) == ~h

collect_enter ==
  /\ cpc = "enter"
  /\ IF must_authenticate(handle[call.p])
     THEN \E ctor_ok \in BOOLEAN :
            LET ok == authenticate(Config, call.p, ctor_ok) IN
            /\ authLog' = Append(authLog, ok)
            /\ handle' = [handle EXCEPT ![call.p] = ok \/ @]
            /\ IF ok
               THEN /\ cpc' = Body(call)
                    /\ UNCHANGED <<pc, ret>>
               ELSE Return(<<>>)
     ELSE /\ cpc' = Body(call)
          /\ UNCHANGED <<pc, ret, authLog, handle>>
  /\ UNCHANGED <<driverVars, fanVars, collected_data, call, vcomments,
                 reqs>>

\* ---------------------------------------------------------------- YouTube
YtRecord(item, video_id) ==
  [source |-> "youtube", id |-> item.id, video_id |-> video_id,
   text_raw |-> item.text, collection_method |-> "direct_id",
   search_keywords |-> <<>>]

comments_per_video(limit, n) == Max(1, limit \div n)

\* the video and the quota _get_video_comments is working on
YtVideo == IF call.op = "id" THEN call.source_id ELSE found[fidx]
YtMaxResults ==
  IF call.op = "id" THEN call.limit
  ELSE comments_per_video(call.limit, Len(found))

\* video_id[:8] on None raises inside the try; "while total < max" may not run
YtEntry(video_id, max_results) ==
  IF video_id = None \/ max_results <= 0 THEN "yt_end" ELSE "yt_page"

\* what a page of the comment listing can answer
YtResponses(rejected, room) ==
  {[status |-> st, texts |-> <<>>, next |-> FALSE] :
     st \in IF rejected THEN {403} ELSE ErrorStatus}
  \cup
  (IF rejected THEN {}
   ELSE {[status |-> 200, texts |-> t, next |-> n] :
           t \in SeqsUpTo(Texts, Min(MaxPage, room)), n \in BOOLEAN})

yt_append_all(acc, recs, max_results) == acc \o recs

yt_append_none(acc, recs, max_results) == acc

\* the inner for loop: append, stop once total_collected >= max_results
yt_append(acc, recs, max_results) ==
  acc \o Take(recs, max_results - Len(acc))

yt_enter ==
  /\ cpc = "yt_enter"
  /\ vcomments' = <<>>
  /\ cpc' = YtEntry(YtVideo, YtMaxResults)
  /\ UNCHANGED <<driverVars, fanVars, pc, ret, handle, collected_data, call,
                 reqs, authLog>>

\* one iteration of the while loop of _get_video_comments
yt_page ==
  /\ cpc = "yt_page"
  /\ LET total_collected == Len(vcomments)
         request_max == Min(PageCap, YtMaxResults - total_collected)
     IN
     \E resp \in YtResponses(creds_rejected(Config, call.p),
                             Room) :
       LET recs == [i \in 1..Len(resp.texts) |->
                      YtRecord(MkItems(resp.texts, Gathered)[i], YtVideo)]
       IN
       /\ reqs' = Append(reqs, [kind |-> "commentThreads", target |-> YtVideo,
                                ask |-> request_max,
                                result |-> Result(resp.status)])
       /\ IF resp.status # 200 \/ resp.texts = <<>>
          THEN /\ cpc' = "yt_end"
               /\ UNCHANGED vcomments
          ELSE /\ vcomments' = yt_append(vcomments, recs, YtMaxResults)
               /\ cpc' = IF Len(vcomments') >= YtMaxResults \/ ~resp.next
                         THEN "yt_end" ELSE "yt_page"
  /\ UNCHANGED <<driverVars, fanVars, pc, ret, handle, collected_data, call,
                 authLog>>

after_item_abort(i, n, failed) == IF failed THEN n + 1 ELSE i + 1

\* the fan-out loop takes the next item whether the fetch failed or not
after_item(i, n, failed) == i + 1

LastFailed(log) == log # <<>> /\ log[Len(log)].result = "error"

KeywordTagged(recs, keywords) ==
  [i \in 1..Len(recs) |->
     [recs[i] EXCEPT !.collection_method = "keyword_search",
                     !.search_keywords = keywords]]

\* _get_video_comments returns: to collect_by_id or to the fan-out loop
yt_end ==
  /\ cpc = "yt_end"
  /\ IF call.op = "id"
     THEN /\ collected_data' =
               [collected_data EXCEPT ![call.p] = @ \o vcomments]
          /\ Return(vcomments)
          /\ UNCHANGED <<comments, fidx>>
     ELSE /\ comments' = comments \o KeywordTagged(vcomments, call.keywords)
          /\ fidx' = after_item(fidx, Len(found), LastFailed(reqs))
          /\ cpc' = "yt_fan"
          /\ UNCHANGED <<pc, ret, collected_data>>
  /\ UNCHANGED <<driverVars, found, kidx, fetchLog, handle, call, vcomments,
                 reqs, authLog>>

SearchPageCap == 50

RECURSIVE append_until(_, _, _)
\* "for item in items: append; if len(video_ids) >= max_videos: break"
append_until(acc, ids, cap) ==
  IF ids = <<>> THEN acc
  ELSE LET a == Append(acc, Head(ids)) IN
       IF Len(a) >= cap THEN a ELSE append_until(a, Tail(ids), cap)

\* what one video search can answer: an error or some videos
YtSearchResponses(rejected) ==
  {[status |-> st, n |-> 0] : st \in IF rejected THEN {403} ELSE ErrorStatus}
  \cup (IF rejected THEN {}
        ELSE {[status |-> 200, n |-> k] : k \in 0..MaxFound})

\* one iteration of the keyword loop of _search_videos_by_keywords, and the
\* part of _search_and_collect that follows the search
yt_search ==
  /\ cpc = "yt_search"
  /\ IF kidx > Len(call.keywords)
     THEN /\ IF found = <<>>
             THEN Return(<<>>)
             ELSE /\ cpc' = "yt_fan"
                  /\ UNCHANGED <<pc, ret>>
          /\ UNCHANGED <<found, kidx, reqs>>
     ELSE \E resp \in YtSearchResponses(creds_rejected(Config, call.p)) :
            LET ids == [i \in 1..resp.n |->
                          "v" \o ToString(Len(found) + i)]
            IN
            /\ reqs' = Append(reqs,
                 [kind |-> "search", target |-> call.keywords[kidx],
                  ask |-> Min(SearchPageCap, MaxVideos - Len(found)),
                  result |-> Result(resp.status)])
            /\ found' = IF resp.status = 200
                        THEN append_until(found, ids, MaxVideos) ELSE found
            /\ kidx' = kidx + 1
            /\ UNCHANGED <<pc, ret, cpc>>
  /\ UNCHANGED <<driverVars, comments, fidx, fetchLog, handle,
                 collected_data, call, vcomments, authLog>>

fan_continue_always(n_comments, limit) == TRUE

\* the fan-out goes on unless "len(comments) >= limit"
fan_continue(n_comments, limit) == n_comments < limit

\* head of the "for video_id in video_ids" loop of _search_and_collect
yt_fan ==
  /\ cpc = "yt_fan"
  /\ IF fidx > Len(found) \/ ~fan_continue(Len(comments), call.limit)
     THEN /\ collected_data' =
               [collected_data EXCEPT ![call.p] = @ \o comments]
          /\ Return(comments)
          /\ UNCHANGED <<fetchLog, vcomments>>
     ELSE /\ fetchLog' = Append(fetchLog,
               [item |-> found[fidx], before |-> Len(comments),
                budget |-> comments_per_video(call.limit, Len(found))])
          /\ vcomments' = <<>>
          /\ cpc' = YtEntry(YtVideo, YtMaxResults)
          /\ UNCHANGED <<pc, ret, collected_data>>
  /\ UNCHANGED <<driverVars, comments, found, fidx, kidx, handle, call,
                 reqs, authLog>>

\* ---------------------------------------------------------------- Twitter
TwRecord(item, tweet_id, method) ==
  [source |-> "twitter", id |-> item.id, tweet_id |-> tweet_id,
   text_raw |-> item.text, collection_method |-> method,
   search_keywords |-> <<>>]

\* tweepy.Cursor(...).items(n) hands out at most n items
cursor_items(stream, n) == Take(stream, n)

\* a run of a cursor asked for n items: the items it handed out and how it
\* ended (a failure can only strike while more items are being asked for)
CursorRuns(rejected, n, room) ==
  IF n <= 0 THEN {[texts |-> <<>>, status |-> 200, issued |-> FALSE]}
  ELSE IF rejected THEN {[texts |-> <<>>, status |-> 401, issued |-> TRUE]}
  ELSE {[texts |-> cursor_items(t, n), status |-> st, issued |-> TRUE] :
          t \in SeqsUpTo(Texts, Min(MaxItems, room)),
          st \in {200} \cup ErrorStatus}

CursorRunOk(run, n) == run.status # 200 => Len(run.texts) < n

\* the requests of a cursor run: those that brought items (or found the
\* listing exhausted), then the one that failed
LogCursor(log, kind, target, n, run) ==
  IF ~run.issued THEN log
  ELSE (IF run.status = 200 \/ run.texts # <<>>
        THEN Append(log, [kind |-> kind, target |-> target, ask |-> n,
                          result |-> "ok"])
        ELSE log)
       \o (IF run.status # 200
           THEN <<[kind |-> kind, target |-> target, ask |-> n,
                   result |-> "error"]>>
           ELSE <<>>)

TwRecords(run, tweet_id, method) ==
  [i \in 1..Len(run.texts) |->
     TwRecord(MkItems(run.texts, Gathered)[i], tweet_id, method)]

\* collect_by_id of the Twitter collector, after authentication
tw_id ==
  /\ cpc = "tw_id"
  /\ LET rejected == creds_rejected(Config, call.p) IN
     CASE call.id_type = "username" ->
            \E run \in CursorRuns(rejected, call.limit, Room) :
              LET recs == TwRecords(run, None, "direct_username") IN
              /\ CursorRunOk(run, call.limit)
              /\ reqs' = LogCursor(reqs, "user_timeline", call.source_id,
                                   call.limit, run)
              /\ collected_data' =
                   [collected_data EXCEPT ![call.p] = @ \o recs]
              /\ Return(recs)
       [] call.id_type = "tweet_id" ->
            \E st \in IF rejected THEN {401}
                      ELSE IF call.source_id = None THEN {404}
                      ELSE {200} \cup ErrorStatus :
              LET asked == Append(reqs,
                     [kind |-> "get_status", target |-> call.source_id,
                      ask |-> 1, result |-> Result(st)])
              IN
              IF st # 200
              THEN /\ reqs' = asked
                   /\ Return(<<>>)
                   /\ UNCHANGED collected_data
              ELSE \E run \in CursorRuns(rejected, call.limit,
                                         Room) :
                   \E keep \in [1..Len(run.texts) -> BOOLEAN] :
                     LET recs == SelectRecords(
                            TwRecords(run, call.source_id,
                                      "direct_tweet_id"), keep)
                     IN
                     /\ CursorRunOk(run, call.limit)
                     /\ reqs' = LogCursor(asked, "search_tweets",
                                          call.source_id, call.limit, run)
                     /\ collected_data' =
                          [collected_data EXCEPT ![call.p] = @ \o recs]
                     /\ Return(recs)
       [] OTHER ->
            /\ Return(<<>>)
            /\ UNCHANGED <<reqs, collected_data>>
  /\ UNCHANGED <<driverVars, fanVars, handle, call, vcomments, authLog>>

\* one iteration of the keyword loop of _search_tweets_by_keywords, and the
\* end of collect_by_keywords
tw_search ==
  /\ cpc = "tw_search"
  /\ IF kidx > Len(call.keywords)
     THEN LET tagged == KeywordTagged(comments, call.keywords) IN
          /\ collected_data' =
               [collected_data EXCEPT ![call.p] = @ \o tagged]
          /\ Return(tagged)
          /\ UNCHANGED <<comments, kidx, reqs>>
     ELSE \E run \in CursorRuns(creds_rejected(Config, call.p), call.limit,
                                Room) :
            /\ CursorRunOk(run, call.limit)
            /\ reqs' = LogCursor(reqs, "search_tweets", call.keywords[kidx],
                                 call.limit, run)
            /\ comments' = comments \o TwRecords(run, None, None)
            /\ kidx' = kidx + 1
            /\ UNCHANGED <<pc, ret, cpc, collected_data>>
  /\ UNCHANGED <<driverVars, found, fidx, fetchLog, handle, call, vcomments,
                 authLog>>

\* ----------------------------------------------------------------- Reddit
RdRecord(item, thread_id, method) ==
  [source |-> "reddit", id |-> item.id, thread_id |-> thread_id,
   text_raw |-> item.text, collection_method |-> method,
   search_keywords |-> <<>>]

RECURSIVE drop_sentinels(_)
\* "comment.body not in ['[deleted]', '[removed]']"
drop_sentinels(recs) ==
  IF recs = <<>> THEN <<>>
  ELSE (IF Head(recs).text_raw \in {Deleted, Removed} THEN <<>>
        ELSE <<Head(recs)>>) \o drop_sentinels(Tail(recs))

\* what fetching a submission with its comments can answer
RdSubmissions(rejected, post_id, room) ==
  {[status |-> st, removed |-> FALSE, texts |-> <<>>] :
     st \in IF rejected THEN {403}
            ELSE IF post_id = None THEN {404} ELSE ErrorStatus}
  \cup
  (IF rejected \/ post_id = None THEN {}
   ELSE {[status |-> 200, removed |-> rm, texts |-> t] :
           rm \in BOOLEAN, t \in SeqsUpTo(ForumBodies, Min(MaxItems, room))})

\* "submission.comments.list()[:limit]"
list_truncated(comment_list, n) == Take(comment_list, n)

rd_discard_failed_only(sub) == sub.status # 200

\* the fetch failed, or "if submission.removed_by_category"
rd_discard(sub) == sub.status # 200 \/ sub.removed

RdRecords(texts, thread_id, method) ==
  [i \in 1..Len(texts) |->
     RdRecord(MkItems(texts, Gathered)[i], thread_id, method)]

\* collect_by_id of the Reddit collector, after authentication
rd_id ==
  /\ cpc = "rd_id"
  /\ \E sub \in RdSubmissions(creds_rejected(Config, call.p), call.source_id,
                              Room) :
       LET recs == drop_sentinels(list_truncated(
                     RdRecords(sub.texts, call.source_id, "direct_post_id"),
                     call.limit))
       IN
       /\ reqs' = Append(reqs,
            [kind |-> "submission", target |-> call.source_id,
             ask |-> call.limit,
             result |-> IF sub.status # 200 THEN "error"
                        ELSE IF sub.removed THEN "removed" ELSE "ok"])
       /\ IF rd_discard(sub)
          THEN /\ Return(<<>>)
               /\ UNCHANGED collected_data
          ELSE /\ collected_data' =
                    [collected_data EXCEPT ![call.p] = @ \o recs]
               /\ Return(recs)
  /\ UNCHANGED <<driverVars, fanVars, handle, call, vcomments, authLog>>

\* what one subreddit search can answer: an error, or posts of which some
\* carry a deleted or removed self-text
RdSearchResponses(rejected, search_limit) ==
  {[status |-> st, kept |-> <<>>] :
     st \in IF rejected THEN {403} ELSE ErrorStatus}
  \cup
  (IF rejected THEN {}
   ELSE {[status |-> 200, kept |-> k] :
           k \in SeqsUpTo(BOOLEAN, Min(MaxFound, search_limit))})

\* one iteration of the keyword loop of _search_subreddit_posts; the try
\* block encloses the whole loop
rd_search ==
  /\ cpc = "rd_search"
  /\ IF kidx > Len(call.keywords)
     THEN /\ cpc' = "rd_fan"
          /\ UNCHANGED <<found, kidx, reqs>>
     ELSE LET max_posts == call.limit \div PostDivisor
              search_limit == max_posts \div Len(call.keywords)
          IN
          IF search_limit <= 0
          THEN /\ kidx' = kidx + 1
               /\ UNCHANGED <<found, reqs, cpc>>
          ELSE \E resp \in RdSearchResponses(
                             creds_rejected(Config, call.p), search_limit) :
                 LET ids == [i \in 1..Len(resp.kept) |->
                               "p" \o ToString(kidx) \o "_" \o ToString(i)]
                 IN
                 /\ reqs' = Append(reqs,
                      [kind |-> "search", target |-> call.keywords[kidx],
                       ask |-> search_limit, result |-> Result(resp.status)])
                 /\ found' = found \o SelectRecords(ids, resp.kept)
                 /\ kidx' = IF resp.status = 200 THEN kidx + 1
                            ELSE Len(call.keywords) + 1
                 /\ UNCHANGED cpc
  /\ UNCHANGED <<driverVars, comments, fidx, fetchLog, pc, ret, handle,
                 collected_data, call, vcomments, authLog>>

comments_per_post(limit, n) == IF n > 0 THEN Max(1, limit \div n) ELSE 0

\* what fetching the comments of a discovered post can answer
RdPostResponses(rejected, room) ==
  {[status |-> st, texts |-> <<>>] :
     st \in IF rejected THEN {403} ELSE ErrorStatus}
  \cup
  (IF rejected THEN {}
   ELSE {[status |-> 200, texts |-> t] :
           t \in SeqsUpTo(ForumBodies, Min(MaxPage, room))})

\* one iteration of the "for post in posts" loop of _search_and_collect with
\* its call of _get_post_comments, and the end of collect_by_keywords
rd_fan ==
  /\ cpc = "rd_fan"
  /\ IF fidx > Len(found) \/ ~fan_continue(Len(comments), call.limit)
     THEN LET tagged == KeywordTagged(comments, call.keywords) IN
          /\ collected_data' =
               [collected_data EXCEPT ![call.p] = @ \o tagged]
          /\ Return(tagged)
          /\ UNCHANGED <<comments, fidx, fetchLog, reqs>>
     ELSE LET budget == comments_per_post(call.limit, Len(found)) IN
          \E resp \in RdPostResponses(creds_rejected(Config, call.p),
                                      Room) :
            LET post_comments ==
                  drop_sentinels(list_truncated(
                    RdRecords(resp.texts, found[fidx], None), budget))
            IN
            /\ fetchLog' = Append(fetchLog,
                 [item |-> found[fidx], before |-> Len(comments),
                  budget |-> budget])
            /\ reqs' = Append(reqs,
                 [kind |-> "submission", target |-> found[fidx],
                  ask |-> budget, result |-> Result(resp.status)])
            /\ comments' = comments \o post_comments
            /\ fidx' = after_item(fidx, Len(found), resp.status # 200)
            /\ UNCHANGED <<pc, ret, cpc, collected_data>>
  /\ UNCHANGED <<driverVars, found, kidx, handle, call, vcomments, authLog>>

adapterVars == <<handle, collected_data, call, cpc, ret, comments, found,
                 fidx, kidx, vcomments, reqs, authLog, fetchLog>>

\* ------------------------------------------------------- collect.py: main
main_validate_args ==
  /\ pc = "validate_args"
  /\ IF validate_args(args) # <<>>
     THEN /\ pc' = "exit"
          /\ exit_code' = 1
     ELSE /\ pc' = "validate_config"
          /\ UNCHANGED exit_code
  /\ UNCHANGED <<mergeVars,
                 args, Config, platIdx, attempted, all_stats, files, ncalls,
                 adapterVars>>

main_validate_config ==
  /\ pc = "validate_config"
  /\ IF validate_config(Config) # <<>>
     THEN /\ pc' = "exit"
          /\ exit_code' = 1
     ELSE /\ pc' = "mkdir"
          /\ UNCHANGED exit_code
  /\ UNCHANGED <<mergeVars,
                 args, Config, platIdx, attempted, all_stats, files, ncalls,
                 adapterVars>>

\* Path("collected_data").mkdir(exist_ok=True) stands outside every try: when
\* the directory cannot be made the exception ends the process with status 1
main_mkdir ==
  /\ pc = "mkdir"
  /\ \E io_ok \in BOOLEAN :
       IF io_ok
       THEN /\ pc' = "loop"
            /\ UNCHANGED exit_code
       ELSE /\ pc' = "exit"
            /\ exit_code' = 1
  /\ UNCHANGED <<mergeVars,
                 args, Config, platIdx, attempted, all_stats, files, ncalls,
                 adapterVars>>

\* head of "for platform in platforms": get_collector builds a new adapter
\* (the one of the previous iteration is dropped) and collect_data makes the
\* collect call
main_loop ==
  /\ pc = "loop"
  /\ platIdx <= Len(platforms(args))
  /\ LET platform == platforms(args)[platIdx] IN
     /\ StartCall(collect_data(platform, args))
     /\ handle' = [p \in Platforms |-> FALSE]
     /\ collected_data' = [p \in Platforms |-> <<>>]
  /\ attempted' = Append(attempted, platforms(args)[platIdx])
  /\ pc' = "collecting"
  /\ UNCHANGED <<mergeVars,
                 args, Config, platIdx, all_stats, files, exit_code, ncalls>>

\* save_data writes a file unless the buffer is empty or the writer fails
save_data(buffer, io_ok) == buffer # <<>> /\ io_ok

get_stats(platform, buffer) ==
  [platform |-> platform, total_collected |-> Len(buffer)]

next_platform_stop(i, n, failed) == IF failed THEN n + 1 ELSE i + 1

\* the loop goes to the next platform whatever happened to this one
next_platform(i, n, failed) == i + 1

has_collected_any(collected_count) == collected_count >= 0

\* "if collected_count > 0"
has_collected(collected_count) == collected_count > 0

\* the collect call is back in main: save, statistics, next platform
main_collected ==
  /\ pc = "collected"
  /\ LET platform == platforms(args)[platIdx]
         collected_count == Len(ret)
     IN
     \E io_ok \in BOOLEAN :
       /\ IF has_collected(collected_count)
          THEN /\ files' =
                    IF save_data(collected_data[platform], io_ok)
                    THEN Append(files,
                           [platform |-> platform, mode |-> args.mode,
                            format |-> args.output_format,
                            n_records |-> Len(collected_data[platform])])
                    ELSE files
               /\ all_stats' = Append(all_stats,
                    get_stats(platform, collected_data[platform]))
          ELSE /\ io_ok
               /\ UNCHANGED <<files, all_stats>>
       /\ platIdx' = next_platform(platIdx, Len(platforms(args)),
                       ~has_collected(collected_count) \/ ~io_ok)
  /\ pc' = "loop"
  /\ UNCHANGED <<mergeVars,
                 args, Config, attempted, exit_code, ncalls, adapterVars>>

\* after the loop: the final summary, then the process ends normally
main_summary ==
  /\ pc = "loop"
  /\ platIdx > Len(platforms(args))
  /\ pc' = "exit"
  /\ exit_code' = 0
  /\ UNCHANGED <<mergeVars,
                 args, Config, platIdx, attempted, all_stats, files, ncalls,
                 adapterVars>>

Collectors ==
  \/ collect_enter
  \/ yt_enter
  \/ yt_page
  \/ yt_end
  \/ yt_search
  \/ yt_fan
  \/ tw_id
  \/ tw_search
  \/ rd_id
  \/ rd_search
  \/ rd_fan

Next ==
  \/ main_validate_args
  \/ main_validate_config
  \/ main_mkdir
  \/ main_loop
  \/ main_collected
  \/ main_summary
  \/ Collectors

Spec == Init /\ [][Next]_vars

\* --------------------------------------------- the collectors used directly
ApiArgs ==
  { [platform |-> pl, mode |-> None, limit |-> 0, video_id |-> None,
     username |-> None, tweet_id |-> None, post_id |-> None,
     keywords |-> <<>>, subreddit |-> "all", output_format |-> "jsonl"] :
    pl \in Platforms }

ApiCalls(p) ==
  { [p |-> p, op |-> "id", source_id |-> "id0", id_type |-> t, limit |-> l,
     keywords |-> <<>>, subreddit |-> None] :
    t \in IF p = "twitter" THEN {"username", "tweet_id", "handle"}
          ELSE {None},
    l \in 0..ApiMaxLimit }
  \cup
  { [p |-> p, op |-> "keywords", source_id |-> None, id_type |-> None,
     limit |-> l, keywords |-> KeywordList(n),
     subreddit |-> IF p = "reddit" THEN "all" ELSE None] :
    l \in 0..ApiMaxLimit, n \in 0..ApiMaxKeywords }

\* a program that builds one collector and makes collect calls on it
ApiInit ==
  /\ pc = "api_idle"
  /\ args \in ApiArgs
  /\ Config \in {c \in Configs :
                   \A p \in Platforms \ {args.platform} :
                     \A i \in 1..Len(CredVars(p)) : c[CredVars(p)[i]] = "good"}
  /\ platIdx = 1
  /\ attempted = <<>>
  /\ all_stats = <<>>
  /\ files = <<>>
  /\ exit_code = -1
  /\ ncalls = 0
  /\ InitAdapters
  /\ MergeOff

api_call ==
  /\ pc = "api_idle"
  /\ ncalls < MaxCalls
  /\ \E c \in ApiCalls(args.platform) : StartCall(c)
  /\ pc' = "api_call"
  /\ ncalls' = ncalls + 1
  /\ UNCHANGED <<mergeVars,
                 args, Config, platIdx, attempted, all_stats, files, exit_code,
                 handle, collected_data>>

ApiNext ==
  \/ api_call
  \/ Collectors

ApiSpec == ApiInit /\ [][ApiNext]_vars

\* --------------------------------------- single calls of the video adapter
\* a program that builds the video collector and makes one call of calls
OneCall(calls) ==
  /\ pc = "api_call"
  /\ args \in {a \in ApiArgs : a.platform = "youtube"}
  /\ Config \in {c \in Configs :
                   \A p \in Platforms \ {"youtube"} :
                     \A i \in 1..Len(CredVars(p)) : c[CredVars(p)[i]] = "good"}
  /\ platIdx = 1
  /\ attempted = <<>>
  /\ all_stats = <<>>
  /\ files = <<>>
  /\ exit_code = -1
  /\ ncalls = 1
  /\ handle = [p \in Platforms |-> FALSE]
  /\ collected_data = [p \in Platforms |-> <<>>]
  /\ call \in calls
  /\ cpc = "enter"
  /\ ret = <<>>
  /\ comments = <<>>
  /\ found = <<>>
  /\ fidx = 1
  /\ kidx = 1
  /\ vcomments = <<>>
  /\ reqs = <<>>
  /\ authLog = <<>>
  /\ fetchLog = <<>>
  /\ MergeOff

PageNext ==
  \/ collect_enter
  \/ yt_enter
  \/ yt_page
  \/ yt_end

\* collect_by_id for the comments of a video, with a limit below or above
\* the size of a page; the call is one sequential computation, so that a
\* step that can be taken is taken
PageSpec ==
  /\ OneCall({ [p |-> "youtube", op |-> "id", source_id |-> v,
                id_type |-> None, limit |-> l, keywords |-> <<>>,
                subreddit |-> None] :
                v \in {None, "vid0"},
                l \in (0..MaxLimit) \cup {PageCap + 1} })
  /\ [][PageNext]_vars
  /\ WF_vars(PageNext)

\* the discovery step of collect_by_keywords with one keyword more than the
\* candidates it may bring
DiscoverNext ==
  \/ collect_enter
  \/ yt_search

DiscoverSpec ==
  /\ OneCall({ [p |-> "youtube", op |-> "keywords", source_id |-> None,
                id_type |-> None, limit |-> l,
                keywords |-> KeywordList(MaxVideos + 1),
                subreddit |-> None] : l \in 1..MaxLimit })
  /\ [][DiscoverNext]_vars

\* ------------------------------------------------- JSON and table values
\* a value of a JSON document or of a table cell: a string given character
\* by character, a string that is only ever compared (an identifier, a
\* platform tag), a number, null, or the missing-value marker NaN
JStr(chars) == [type |-> "str", s |-> chars, name |-> "", n |-> 0]
JName(x) == [type |-> "name", s |-> <<>>, name |-> x, n |-> 0]
JNum(k) == [type |-> "num", s |-> <<>>, name |-> "", n |-> k]
JNull == [type |-> "null", s |-> <<>>, name |-> "", n |-> 0]
NaN == [type |-> "nan", s |-> <<>>, name |-> "", n |-> 0]

\* Python's bool(v): empty strings, 0 and None are false, NaN is not
truthy(v) ==
  CASE v.type = "str"  -> v.s # <<>>
    [] v.type = "name" -> v.name # ""
    [] v.type = "num"  -> v.n # 0
    [] v.type = "null" -> FALSE
    [] v.type = "nan"  -> TRUE

\* a physical line is a sequence of tokens: braces, "key": value members
\* (with the comma that follows them), whole values that are not objects,
\* indentation, and text that is not JSON at all
Tok(t) == [t |-> t, key |-> "", val |-> JNull]
LBrace == Tok("{")
RBrace == Tok("}")
Space == Tok(" ")
Junk == Tok("junk")
Value(v) == [t |-> "value", key |-> "", val |-> v]
Field(k, v) == [t |-> "field", key |-> k, val |-> v]

RECURSIVE strip_line(_)
\* line.strip()
strip_line(line) ==
  IF line # <<>> /\ Head(line) = Space THEN strip_line(Tail(line))
  ELSE IF line # <<>> /\ line[Len(line)] = Space
  THEN strip_line(SubSeq(line, 1, Len(line) - 1))
  ELSE line

\* json.loads: white space between tokens is skipped; an object is a pair of
\* braces around members, any other single value is returned as it is,
\* everything else (the empty string too) raises JSONDecodeError
json_loads(line) ==
  LET toks == SelectSeq(line, LAMBDA tok : tok # Space) IN
  IF /\ Len(toks) >= 2
     /\ toks[1] = LBrace
     /\ toks[Len(toks)] = RBrace
     /\ \A i \in 2..(Len(toks) - 1) : toks[i].t = "field"
  THEN [error |-> FALSE, is_dict |-> TRUE,
        members |-> SubSeq(toks, 2, Len(toks) - 1)]
  ELSE IF Len(toks) = 1 /\ toks[1].t = "value"
  THEN [error |-> FALSE, is_dict |-> FALSE, members |-> <<>>]
  ELSE [error |-> TRUE, is_dict |-> FALSE, members |-> <<>>]

\* dict.get(key, default); of a repeated key the last member counts
get(members, key, default) ==
  LET at == {i \in 1..Len(members) : members[i].key = key} IN
  IF at = {} THEN default
  ELSE members[CHOOSE i \in at : \A j \in at : j <= i].val

RECURSIVE Concat(_)
Concat(ss) == IF ss = <<>> THEN <<>> ELSE Head(ss) \o Concat(Tail(ss))

\* ------------------------------------------- base_collector.py: to_json
Indent == 2

\* the columns of a record that the readers of a batch file look at, and the
\* collection method; the other columns are written in the same way
record_members(r) ==
  <<Field("source", JName(r.source)), Field("id", JName(r.id)),
    Field("text_raw", JStr(r.text_raw)),
    Field("collection_method", JName(r.collection_method))>>

\* DataFrame.to_json(orient='records', lines=True, indent=indent): without
\* indentation every record is one line; with it the records are pretty
\* printed, every brace and every member on a line of its own, and the
\* commas between the records become line ends
to_json(records, indent) ==
  IF indent = 0
  THEN [i \in 1..Len(records) |->
          <<LBrace>> \o record_members(records[i]) \o <<RBrace>>]
  ELSE <<<<>>>> \o
       Concat([i \in 1..Len(records) |->
                 <<<<Space, LBrace>>>>
                 \o [j \in 1..Len(record_members(records[i])) |->
                       <<Space, Space, record_members(records[i])[j]>>]
                 \o <<<<Space, RBrace>>, <<>>>>])

\* ------------------------------------------------- the batch directory
\* a line that holds an object; what each of the three text fields holds is
\* given by a word, None: the field is absent
ObjectLine(ids, text_raw, text, content) ==
  <<LBrace>>
  \o ids
  \o (CASE text_raw = None     -> <<>>
        [] text_raw = "empty"  -> <<Field("text_raw", JStr(Empty))>>
        [] text_raw = "text"   -> <<Field("text_raw", JStr(<<" ", "r", " ">>))>>
        [] text_raw = "number" -> <<Field("text_raw", JNum(5))>>)
  \o (CASE text = None    -> <<>>
        [] text = "blank" -> <<Field("text", JStr(Blank))>>
        [] text = "text"  -> <<Field("text", JStr(<<"t">>))>>)
  \o (CASE content = None   -> <<>>
        [] content = "text" -> <<Field("content", JStr(<<"c", " ">>))>>)
  \o <<RBrace>>

UsualIds == <<Field("source", JName("reddit")), Field("id", JName("x1"))>>

\* the lines of the batch files written by other means: lines that are
\* not an object, and objects with each text field alone, each field hidden
\* behind an earlier one that is present but empty, blank or not a string,
\* no text field at all, or another identifier
Lines ==
  { <<>>, <<Junk>>, <<Value(JNum(7))>> }
  \cup { ObjectLine(UsualIds, c[1], c[2], c[3]) :
           c \in { <<"text", None, None>>, <<"text", "text", "text">>,
                   <<"empty", "text", None>>, <<"empty", None, "text">>,
                   <<"number", "text", None>>, <<None, "text", "text">>,
                   <<None, "blank", "text">>, <<None, None, "text">>,
                   <<None, None, None>> } }
  \cup { ObjectLine(<<Field("source_id", JName("s1"))>>, "text", None, None),
         ObjectLine(<<>>, "text", None, None) }

\* the files of k lines: batch files of any lines, and a file with another
\* suffix whose lines would all make rows
FilesOfLen(lines, k) ==
  { [suffix |-> ".jsonl", lines |-> ls] : ls \in [1..k -> lines] }
  \cup { [suffix |-> ".csv",
          lines |-> [i \in 1..k |-> ObjectLine(UsualIds, "text", None, None)]] }

\* the buffers of k records a video collector can hold
BuffersOfLen(k) ==
  { [i \in 1..k |-> YtRecord(MkItems(texts, 0)[i], "vid0")] :
      texts \in [1..k -> Texts] }

\* the batch files save_data writes from a buffer of k records
SavedFiles(k) ==
  IF k = 0 THEN {}
  ELSE { [suffix |-> ".jsonl", lines |-> to_json(b, Indent)] :
           b \in BuffersOfLen(k) }

RECURSIVE FileLists(_, _, _)
\* the lists of n files that hold budget lines (or saved records) at most
FileLists(lines, n, budget) ==
  IF n = 0 THEN { <<>> }
  ELSE UNION { { <<f>> \o rest :
                   f \in FilesOfLen(lines, k) \cup SavedFiles(k),
                   rest \in FileLists(lines, n - 1, budget - k) } :
               k \in 0..budget }

NoDirectory == [exists |-> FALSE, files |-> <<>>]

\* two batch files placed in the directory by hand: three lines with texts
\* and a line that is not JSON, then two lines with texts of which the
\* second repeats a text of the first file
ScenarioDirectory ==
  LET line(c) ==
        <<LBrace>> \o UsualIds
        \o <<Field("text_raw", JStr(<<"t", "e", "x", "t", " ", c>>)), RBrace>>
  IN [exists |-> TRUE,
      files |-> << [suffix |-> ".jsonl",
                    lines |-> <<line("1"), <<Junk>>, line("2"), line("3")>>],
                   [suffix |-> ".jsonl",
                    lines |-> <<line("4"), line("1")>>] >>]

Directories ==
  { NoDirectory, ScenarioDirectory }
  \cup { [exists |-> TRUE, files |-> fs] :
           fs \in UNION { FileLists(Lines, n, MaxLines) : n \in 0..MaxFiles } }

\* ------------------------------------- process_jsonl_files, of both tools
\* the label of the rows made from batch files: NaN in merge_datasets.py,
\* 0 in merge_collected_data.py
jsonl_label(t) == IF t = "merge_datasets" THEN NaN ELSE JNum(0)

extract_text_first_filled(members) ==
  LET filled(k) == LET v == get(members, k, JStr(<<>>)) IN
                   v.type = "str" /\ strip(v.s) # <<>>
  IN IF filled("text_raw") THEN get(members, "text_raw", JStr(<<>>))
     ELSE IF filled("text") THEN get(members, "text", JStr(<<>>))
     ELSE get(members, "content", JStr(<<>>))

\* data.get('text_raw', data.get('text', data.get('content', '')))
extract_text(members) ==
  get(members, "text_raw",
      get(members, "text", get(members, "content", JStr(<<>>))))

\* the body of the loop over the lines: the row the line makes, or why it
\* makes none; a value that is no object has no get, a text that is no
\* string has no strip, and both end in the handler of Exception
line_result(line, label) ==
  LET data == json_loads(strip_line(line)) IN
  IF data.error THEN [outcome |-> "JSONDecodeError", rows |-> <<>>]
  ELSE IF ~data.is_dict THEN [outcome |-> "Exception", rows |-> <<>>]
  ELSE LET text == extract_text(data.members) IN
       IF ~truthy(text) THEN [outcome |-> "no text", rows |-> <<>>]
       ELSE IF text.type # "str"
       THEN [outcome |-> "Exception", rows |-> <<>>]
       ELSE IF strip(text.s) = <<>>
       THEN [outcome |-> "no text", rows |-> <<>>]
       ELSE [outcome |-> "row",
             rows |-> << [source |-> get(data.members, "source",
                                         JName("unknown")),
                          source_id |-> get(data.members, "id",
                                            get(data.members, "source_id",
                                                NaN)),
                          text |-> JStr(strip(text.s)),
                          label |-> label] >>]

\* where the tool goes on when process_jsonl_files has returned
AfterJsonl == IF tool = "merge_datasets" THEN "merge" ELSE "save"

collectVars == <<pc, args, Config, platIdx, attempted, all_stats, files,
                 exit_code, ncalls, adapterVars>>

\* entry of process_jsonl_files: a directory that does not exist gives an
\* empty table
process_jsonl_files ==
  /\ mpc = "jsonl"
  /\ processed_data' = <<>>
  /\ fileIdx' = 1
  /\ lineIdx' = 1
  /\ IF ~directory.exists
     THEN /\ dfs' = [dfs EXCEPT !.jsonl = <<>>]
          /\ mpc' = AfterJsonl
     ELSE /\ mpc' = "walk"
          /\ UNCHANGED dfs
  /\ UNCHANGED <<tool, origins, directory, lineLog, final_df, written,
                 collectVars>>

after_line_break(i, n, outcome) ==
  IF outcome = "JSONDecodeError" THEN n + 1 ELSE i + 1

\* "continue" in both handlers: the loop goes to the next line
after_line(i, n, outcome) == i + 1

\* filename.endswith('.jsonl')
is_batch_file(f) == f.suffix = ".jsonl"

\* one line of a batch file is read
jsonl_line ==
  /\ mpc = "walk"
  /\ fileIdx <= Len(directory.files)
  /\ LET f == directory.files[fileIdx] IN
     /\ is_batch_file(f)
     /\ lineIdx <= Len(f.lines)
     /\ LET res == line_result(f.lines[lineIdx], jsonl_label(tool)) IN
        /\ processed_data' = processed_data \o res.rows
        /\ lineLog' = Append(lineLog,
             [file |-> fileIdx, line |-> lineIdx, outcome |-> res.outcome,
              nrows |-> Len(processed_data) + Len(res.rows)])
        /\ lineIdx' = after_line(lineIdx, Len(f.lines), res.outcome)
  /\ UNCHANGED <<mpc, tool, origins, directory, fileIdx, dfs, final_df,
                 written, collectVars>>

\* the end of a file, or a file that is no batch file: the next file
jsonl_next_file ==
  /\ mpc = "walk"
  /\ fileIdx <= Len(directory.files)
  /\ LET f == directory.files[fileIdx] IN
     ~is_batch_file(f) \/ lineIdx > Len(f.lines)
  /\ fileIdx' = fileIdx + 1
  /\ lineIdx' = 1
  /\ UNCHANGED <<mpc, tool, origins, directory, processed_data, lineLog, dfs,
                 final_df, written, collectVars>>

\* the directory is walked: process_jsonl_files returns the table
jsonl_return ==
  /\ mpc = "walk"
  /\ fileIdx > Len(directory.files)
  /\ dfs' = [dfs EXCEPT !.jsonl = processed_data]
  /\ mpc' = AfterJsonl
  /\ UNCHANGED <<tool, origins, directory, fileIdx, lineIdx, processed_data,
                 lineLog, final_df, written, collectVars>>

\* ----------------------------------------- merge_collected_data.py: main
\* the table is written when it has rows; a failure to write is reported
collected_save ==
  /\ mpc = "save"
  /\ final_df' = dfs.jsonl
  /\ IF Len(dfs.jsonl) > 0
     THEN \E io_ok \in BOOLEAN :
            written' = IF io_ok THEN "xlsx" ELSE "failed"
     ELSE written' = "none"
  /\ mpc' = "done"
  /\ UNCHANGED <<tool, origins, directory, fileIdx, lineIdx, processed_data,
                 lineLog, dfs, collectVars>>

\* no collection session runs
CollectOff ==
  /\ pc = "off"
  /\ args = [platform |-> None, mode |-> None, limit |-> 0,
             video_id |-> None, username |-> None, tweet_id |-> None,
             post_id |-> None, keywords |-> <<>>, subreddit |-> "all",
             output_format |-> "jsonl"]
  /\ Config = [v \in UNION {Range(CredVars(p)) : p \in Platforms} |-> "good"]
  /\ platIdx = 1
  /\ attempted = <<>>
  /\ all_stats = <<>>
  /\ files = <<>>
  /\ exit_code = -1
  /\ ncalls = 0
  /\ InitAdapters

\* merge_collected_data.py run on a batch directory
NormalizerInit ==
  /\ CollectOff
  /\ mpc = "jsonl"
  /\ tool = "merge_collected_data"
  /\ origins = [excel |-> [status |-> "missing", rows |-> <<>>],
                arsas |-> [status |-> "failed", rows |-> <<>>],
                tsac |-> [status |-> "failed", rows |-> <<>>]]
  /\ directory \in Directories
  /\ fileIdx = 1
  /\ lineIdx = 1
  /\ processed_data = <<>>
  /\ lineLog = <<>>
  /\ dfs = [excel |-> <<>>, arsas |-> <<>>, tsac |-> <<>>, jsonl |-> <<>>]
  /\ final_df = <<>>
  /\ written = "none"

NormalizerNext ==
  \/ process_jsonl_files
  \/ jsonl_line
  \/ jsonl_next_file
  \/ jsonl_return
  \/ collected_save

NormalizerSpec == NormalizerInit /\ [][NormalizerNext]_vars

\* ------------------------------------------------------------ fix_jsonl.py
\* quick_fix_jsonl on the lines of a file: the lines it writes. A line that
\* begins with "{" opens an object; the braces are counted, and the test
\* for the end of the object is made on the lines that follow the opening
\* line only
quick_fix_jsonl(content) ==
  LET count(line, tok) == Cardinality({i \in 1..Len(line) : line[i] = tok})
      balance(line) == count(line, LBrace) - count(line, RBrace)
      closed(st, line) ==
        LET parsed == json_loads(Concat(Append(st.current_obj, line))) IN
        [objects |-> IF parsed.error THEN st.objects
                     ELSE Append(st.objects, parsed.members),
         current_obj |-> <<>>, in_object |-> FALSE, brace_count |-> 0]
      step(st, raw) ==
        LET line == strip_line(raw) IN
        IF line = <<>> THEN st
        ELSE IF Head(line) = LBrace /\ ~st.in_object
        THEN [st EXCEPT !.in_object = TRUE, !.current_obj = <<line>>,
                        !.brace_count = balance(line)]
        ELSE IF st.in_object
        THEN IF st.brace_count + balance(line) = 0
             THEN closed(st, line)
             ELSE [st EXCEPT !.current_obj = Append(@, line),
                             !.brace_count = @ + balance(line)]
        ELSE st
      RECURSIVE scan(_, _)
      scan(st, lines) ==
        IF lines = <<>> THEN st ELSE scan(step(st, Head(lines)), Tail(lines))
      objects == scan([objects |-> <<>>, current_obj |-> <<>>,
                       in_object |-> FALSE, brace_count |-> 0],
                      content).objects
  IN [i \in 1..Len(objects) |-> <<LBrace>> \o objects[i] \o <<RBrace>>]

\* quick_fix_jsonl run on the first file of the directory, then on the
\* file it wrote
quick_fix ==
  /\ mpc \in {"fix", "refix"}
  /\ IF mpc = "fix"
     THEN /\ processed_data' = quick_fix_jsonl(directory.files[1].lines)
          /\ mpc' = "refix"
          /\ UNCHANGED final_df
     ELSE /\ final_df' = quick_fix_jsonl(processed_data)
          /\ mpc' = "done"
          /\ UNCHANGED processed_data
  /\ UNCHANGED <<tool, origins, directory, fileIdx, lineIdx, lineLog, dfs,
                 written, collectVars>>

FixInit ==
  /\ CollectOff
  /\ mpc = "fix"
  /\ tool = "fix_jsonl"
  /\ origins = [excel |-> [status |-> "missing", rows |-> <<>>],
                arsas |-> [status |-> "failed", rows |-> <<>>],
                tsac |-> [status |-> "failed", rows |-> <<>>]]
  /\ directory \in {d \in Directories : d.files # <<>>}
  /\ fileIdx = 1
  /\ lineIdx = 1
  /\ processed_data = <<>>
  /\ lineLog = <<>>
  /\ dfs = [excel |-> <<>>, arsas |-> <<>>, tsac |-> <<>>, jsonl |-> <<>>]
  /\ final_df = <<>>
  /\ written = "none"

FixSpec == FixInit /\ [][quick_fix]_vars

\* ------------------------------------------------------ merge_datasets.py
MinTextLen == 5

\* str.lower()
lower(s) ==
  LET upper ==
        <<"A", "B", "C", "D", "E", "F", "G", "H", "I", "J", "K", "L", "M",
          "N", "O", "P", "Q", "R", "S", "T", "U", "V", "W", "X", "Y", "Z">>
      small ==
        <<"a", "b", "c", "d", "e", "f", "g", "h", "i", "j", "k", "l", "m",
          "n", "o", "p", "q", "r", "s", "t", "u", "v", "w", "x", "y", "z">>
      lower_char(c) ==
        IF \E i \in 1..Len(upper) : upper[i] = c
        THEN small[CHOOSE i \in 1..Len(upper) : upper[i] = c]
        ELSE c
  IN [i \in 1..Len(s) |-> lower_char(s[i])]

\* label_mapping.get(key, 0) of process_excel_data: the labels mapped to 0
\* and the unknown ones give the same
excel_label_mapping(key) ==
  LET two == { <<"a", "n", "g", "e", "r">>,
               <<"d", "i", "s", "g", "u", "s", "t">>,
               <<"f", "e", "a", "r">>,
               <<"p", "e", "s", "s", "i", "m", "i", "s", "m">>,
               <<"s", "a", "d", "n", "e", "s", "s">> }
      one == { <<"h", "a", "p", "p", "i", "n", "e", "s", "s">>,
               <<"o", "p", "t", "i", "m", "i", "s", "m">> }
  IN IF key \in two THEN 2 ELSE IF key \in one THEN 1 ELSE 0

\* label strings, as the corpora and the mappings write them
positive == <<"p", "o", "s", "i", "t", "i", "v", "e">>
negative == <<"n", "e", "g", "a", "t", "i", "v", "e">>
Positive == <<"P", "o", "s", "i", "t", "i", "v", "e">>
Negative == <<"N", "e", "g", "a", "t", "i", "v", "e">>

\* label_mapping.get(key, 0) of process_arsas_dataset
arsas_label_mapping(key) ==
  IF key \in {positive, <<"p", "o", "s">>} THEN 1
  ELSE IF key \in {negative, <<"n", "e", "g">>} THEN 2
  ELSE 0

\* label_mapping.get(label, 0) of process_tsac_dataset: the keys are
\* compared as they are written
tsac_label_mapping(key) ==
  IF key = Positive THEN 1 ELSE IF key = Negative THEN 2 ELSE 0

\* the texts the origins of the merge hold: six characters, the same with a
\* space behind, and one of five characters
Hello == <<"h", "e", "l", "l", "o", "!">>
Hello5 == <<"h", "e", "l", "l", "o">>
HelloPad == <<"h", "e", "l", "l", "o", "!", " ">>

\* the origins of a merge: the spreadsheet (rows with the columns post and
\* label) may be missing or unreadable, arbml/ArSAS and tunis-ai/tsac may
\* fail to load
Origins ==
  LET Sadness == <<"S", "a", "d", "n", "e", "s", "s">>
      Other == <<"O", "t", "h", "e", "r">>
      ExcelRows ==
        { [post |-> JStr(t), label |-> l] :
            t \in {Hello, HelloPad, Hello5}, l \in {NaN, JStr(Sadness)} }
      ArsasItems ==
        { [Tweet_ID |-> JName("t1"), Tweet_text |-> JStr(t),
           label |-> JStr(l)] :
            t \in {Hello, Hello5}, l \in {Positive, Other} }
      TsacItems ==
        { [sentence |-> JStr(t), label |-> JStr(l)] :
            t \in {Hello, HelloPad}, l \in {Positive, positive} }
  IN { [excel |-> e, arsas |-> a, tsac |-> t] :
         e \in { [status |-> "missing", rows |-> <<>>],
                 [status |-> "unreadable", rows |-> <<>>] }
               \cup { [status |-> "ok", rows |-> rs] :
                        rs \in SeqsUpTo(ExcelRows, MaxExcelRows) },
         a \in { [status |-> "failed", rows |-> <<>>] }
               \cup { [status |-> "ok", rows |-> rs] :
                        rs \in SeqsUpTo(ArsasItems, MaxHostedRows) },
         t \in { [status |-> "failed", rows |-> <<>>] }
               \cup { [status |-> "ok", rows |-> rs] :
                        rs \in SeqsUpTo(TsacItems, MaxHostedRows) } }

\* the batch directory of a merge: none, an empty one, the two files of the
\* scenario, or one batch file of lines that are not JSON or hold a text
MergeDirectories ==
  LET TextLine(chars) ==
        <<LBrace>> \o UsualIds \o <<Field("text_raw", JStr(chars)), RBrace>>
      MergeLines ==
        { <<Junk>>, TextLine(Hello), TextLine(HelloPad), TextLine(Hello5) }
  IN { NoDirectory, ScenarioDirectory, [exists |-> TRUE, files |-> <<>>] }
     \cup { [exists |-> TRUE,
             files |-> << [suffix |-> ".jsonl", lines |-> ls] >>] :
              ls \in SeqsUpTo(MergeLines, MaxMergeLines) }

\* the row process_excel_data makes of a spreadsheet row
excel_row(row) ==
  [source |-> JName("youtube"), source_id |-> NaN, text |-> row.post,
   label |-> IF row.label # NaN
             THEN JNum(excel_label_mapping(lower(strip(row.label.s))))
             ELSE NaN]

\* the row process_arsas_dataset makes of an item; x or default gives the
\* default for every x that is false
arsas_row(item) ==
  LET or_else(v, default) == IF truthy(v) THEN v ELSE default IN
  [source |-> JName("twitter"),
   source_id |-> or_else(item.Tweet_ID, NaN),
   text |-> or_else(item.Tweet_text, JStr(<<>>)),
   label |-> JNum(arsas_label_mapping(
               lower(strip(or_else(item.label, JStr(<<>>)).s))))]

\* the row process_tsac_dataset makes of an item
tsac_row(item) ==
  [source |-> JName("facebook"), source_id |-> NaN, text |-> item.sentence,
   label |-> JNum(tsac_label_mapping(item.label.s))]

\* main of merge_datasets.py: without the spreadsheet nothing is done
merge_main ==
  /\ mpc = "main"
  /\ mpc' = IF origins.excel.status = "missing" THEN "done" ELSE "excel"
  /\ UNCHANGED <<tool, origins, directory, fileIdx, lineIdx, processed_data,
                 lineLog, dfs, final_df, written, collectVars>>

\* read_excel is not guarded: when it raises, main reports it and ends
process_excel_data ==
  /\ mpc = "excel"
  /\ IF origins.excel.status = "ok"
     THEN /\ dfs' = [dfs EXCEPT !.excel =
                       [i \in 1..Len(origins.excel.rows) |->
                          excel_row(origins.excel.rows[i])]]
          /\ mpc' = "arsas"
     ELSE /\ mpc' = "done"
          /\ UNCHANGED dfs
  /\ UNCHANGED <<tool, origins, directory, fileIdx, lineIdx, processed_data,
                 lineLog, final_df, written, collectVars>>

\* a failure of load_dataset is printed and raised again
process_arsas_dataset ==
  /\ mpc = "arsas"
  /\ IF origins.arsas.status = "ok"
     THEN /\ dfs' = [dfs EXCEPT !.arsas =
                       [i \in 1..Len(origins.arsas.rows) |->
                          arsas_row(origins.arsas.rows[i])]]
          /\ mpc' = "tsac"
     ELSE /\ mpc' = "done"
          /\ UNCHANGED dfs
  /\ UNCHANGED <<tool, origins, directory, fileIdx, lineIdx, processed_data,
                 lineLog, final_df, written, collectVars>>

\* a failure of load_dataset gives an empty table
process_tsac_dataset ==
  /\ mpc = "tsac"
  /\ dfs' = [dfs EXCEPT !.tsac =
               IF origins.tsac.status = "ok"
               THEN [i \in 1..Len(origins.tsac.rows) |->
                       tsac_row(origins.tsac.rows[i])]
               ELSE <<>>]
  /\ mpc' = "jsonl"
  /\ UNCHANGED <<tool, origins, directory, fileIdx, lineIdx, processed_data,
                 lineLog, final_df, written, collectVars>>

\* pd.concat of the tables that have rows, in the order excel, arsas, tsac,
\* jsonl
concat(tables) ==
  Concat(SelectSeq(<<tables.excel, tables.arsas, tables.tsac, tables.jsonl>>,
                   LAMBDA df : Len(df) > 0))

fillna_nothing(df) == df

\* final_df['label'].fillna(0).astype(int)
fillna(df) ==
  [i \in 1..Len(df) |->
     [df[i] EXCEPT !.label = IF @ = NaN THEN JNum(0) ELSE @]]

drop_duplicates_keep_none(df) ==
  SelectSeq(df, LAMBDA r :
    Cardinality({i \in 1..Len(df) : df[i].text = r.text}) = 1)

drop_duplicates_keep_last(df) ==
  LET last == {i \in 1..Len(df) :
                 \A j \in (i + 1)..Len(df) : df[j].text # df[i].text}
  IN Concat([i \in 1..Len(df) |-> IF i \in last THEN <<df[i]>> ELSE <<>>])

\* final_df.drop_duplicates(subset=['text']): of the rows with the same text
\* the first is kept
drop_duplicates(df) ==
  LET first == {i \in 1..Len(df) :
                  \A j \in 1..(i - 1) : df[j].text # df[i].text}
  IN Concat([i \in 1..Len(df) |-> IF i \in first THEN <<df[i]>> ELSE <<>>])

clean_short_from_five(df) ==
  SelectSeq(df, LAMBDA r :
    r.text.type = "str" /\ Len(strip(r.text.s)) >= MinTextLen)

\* final_df[final_df['text'].str.strip().str.len() > 5]
clean_short(df) ==
  SelectSeq(df, LAMBDA r :
    r.text.type = "str" /\ Len(strip(r.text.s)) > MinTextLen)

\* lines 262 to 274 of merge_all_datasets, on the concatenated table
dedup_and_clean(df) == clean_short(drop_duplicates(fillna(df)))

\* merge_all_datasets once the four tables are made: nothing is written when
\* no table has rows; the spreadsheet writer may fail, and then the
\* delimited-text writer is tried
merge_all_datasets ==
  /\ mpc = "merge"
  /\ IF concat(dfs) = <<>>
     THEN /\ final_df' = <<>>
          /\ written' = "none"
     ELSE /\ final_df' = dedup_and_clean(concat(dfs))
          /\ \E out \in {"xlsx", "csv", "failed"} : written' = out
  /\ mpc' = "done"
  /\ UNCHANGED <<tool, origins, directory, fileIdx, lineIdx, processed_data,
                 lineLog, dfs, collectVars>>

\* merge_datasets.py run on a spreadsheet, the hosted corpora and a batch
\* directory
MergeInit ==
  /\ CollectOff
  /\ mpc = "main"
  /\ tool = "merge_datasets"
  /\ origins \in Origins
  /\ directory \in MergeDirectories
  /\ fileIdx = 1
  /\ lineIdx = 1
  /\ processed_data = <<>>
  /\ lineLog = <<>>
  /\ dfs = [excel |-> <<>>, arsas |-> <<>>, tsac |-> <<>>, jsonl |-> <<>>]
  /\ final_df = <<>>
  /\ written = "none"

MergeNext ==
  \/ merge_main
  \/ process_excel_data
  \/ process_arsas_dataset
  \/ process_tsac_dataset
  \/ process_jsonl_files
  \/ jsonl_line
  \/ jsonl_next_file
  \/ jsonl_return
  \/ merge_all_datasets

MergeSpec == MergeInit /\ [][MergeNext]_vars

\* ================================================================ claims
Finished == cpc = "idle" /\ call # NoCall

\* C1: one collect_by_id call of any adapter returns at most limit records,
\* whatever the upstream answers.
C1_ByIdAtMostLimit ==
  (Finished /\ call.op = "id") => Len(ret) <= call.limit

\* a page brought the video adapter exactly to a limit of two
C1_Witness ==
  /\ Finished
  /\ call.op = "id"
  /\ call.p = "youtube"
  /\ call.limit = 2
  /\ Len(ret) = 2
  /\ Len(reqs) = 1

\* C2: every record returned by collect_by_id has a non-empty id and a
\* text_raw that is neither empty nor whitespace-only.
C2_RecordsHaveIdAndText ==
  (Finished /\ call.op = "id") =>
    \A i \in 1..Len(ret) :
      ret[i].id # "" /\ strip(ret[i].text_raw) # <<>>

\* the budget one discovered item has in keyword mode; the microblog
\* adapter has no fan-out, each of its keyword searches may bring limit items
PerItemBudget ==
  IF call.p = "twitter" THEN call.limit
  ELSE IF found = <<>> THEN 0
  ELSE Max(1, call.limit \div Len(found))

\* C3: one collect_by_keywords call of any adapter returns at most limit
\* records plus one discovered item's per-item budget.
C3_KeywordTotalBounded ==
  (Finished /\ call.op = "keywords") =>
    Len(ret) <= call.limit + PerItemBudget

\* C4: keyword mode of the video and forum adapters fetches the discovered
\* items in discovery order, asks each for at most max(1, limit // n)
\* records, and fetches no item once limit records have been gathered.
C4_FanOutBudget ==
  (call.op = "keywords" /\ call.p \in {"youtube", "reddit"}) =>
    /\ Len(fetchLog) <= Len(found)
    /\ \A i \in 1..Len(fetchLog) :
         /\ fetchLog[i].item = found[i]
         /\ fetchLog[i].budget <= Max(1, call.limit \div Len(found))
         /\ fetchLog[i].before < call.limit
    /\ \A i \in 1..Len(reqs) :
         reqs[i].kind \in {"commentThreads", "submission"} =>
           reqs[i].ask <= Max(1, call.limit \div Len(found))

\* the video fan-out stopped at the limit with a discovered video left over
C4_Witness ==
  /\ Finished
  /\ call.op = "keywords"
  /\ call.p = "youtube"
  /\ Len(found) >= 2
  /\ Len(fetchLog) >= 1
  /\ Len(fetchLog) < Len(found)
  /\ Len(ret) >= call.limit

\* by-ID runs of the command line: the platform whose call has just come back
JustCollected == pc = "loop" /\ call # NoCall
FileOf(platform) == \E i \in 1..Len(files) : files[i].platform = platform
StatsOf(platform) ==
  \E i \in 1..Len(all_stats) : all_stats[i].platform = platform

\* C5 as stated: a by-ID call that met a not-found, forbidden or removed
\* answer at any request returns nothing, its run writes no file, exits 0.
C5_AnyFailureGivesEmpty ==
  /\ (Finished /\ call.op = "id"
        /\ \E i \in 1..Len(reqs) : reqs[i].result # "ok") => ret = <<>>
  /\ (JustCollected /\ call.op = "id"
        /\ \E i \in 1..Len(reqs) : reqs[i].result # "ok") =>
       ~FileOf(call.p)
  /\ (pc = "exit" /\ call # NoCall) => exit_code = 0

\* C5 amended: a by-ID call whose first request is answered not found,
\* forbidden or removed returns nothing, its run writes no file and exits 0.
C5_FirstFailureGivesEmpty ==
  /\ (Finished /\ call.op = "id" /\ reqs # <<>> /\ reqs[1].result # "ok")
       => ret = <<>>
  /\ (JustCollected /\ call.op = "id" /\ reqs # <<>>
        /\ reqs[1].result # "ok") => ~FileOf(call.p)
  /\ (pc = "exit" /\ call # NoCall) => exit_code = 0

\* a by-ID run on a removed forum post has ended without a file
C5_Witness ==
  /\ pc = "exit"
  /\ args.mode = "id"
  /\ args.platform = "reddit"
  /\ reqs # <<>>
  /\ reqs[1].result = "removed"
  /\ files = <<>>
  /\ exit_code = 0

\* C6: in keyword mode of the video and forum adapters a failed item fetch
\* does not end the fan-out: only the limit keeps a discovered item from
\* being fetched, and the records gathered from the items are returned.
C6_FailedItemDoesNotAbort ==
  (Finished /\ call.op = "keywords" /\ call.p \in {"youtube", "reddit"}) =>
    /\ Len(fetchLog) < Len(found) => Len(comments) >= call.limit
    /\ Len(ret) = Len(comments)
    /\ \A i \in 1..Len(ret) : ret[i].collection_method = "keyword_search"

\* the fetch of the first video failed, the second was fetched and gave
\* the records that were returned
C6_Witness ==
  /\ Finished
  /\ call.op = "keywords"
  /\ call.p = "youtube"
  /\ Len(fetchLog) >= 2
  /\ \E i \in 1..Len(reqs) :
       /\ reqs[i].kind = "commentThreads"
       /\ reqs[i].target = found[1]
       /\ reqs[i].result = "error"
  /\ ret # <<>>

BadCredentials(p) == ~creds_present(Config, p) \/ creds_rejected(Config, p)

\* C7: with absent or rejected credentials authentication fails, the collect
\* call issues no upstream request, returns nothing and leaves the buffer
\* alone, and a platform=all run still attempts the other platforms.
C7_BadCredentialsStopTheCall ==
  /\ (call # NoCall /\ cpc # "enter" /\ BadCredentials(call.p)) =>
       /\ authLog = <<FALSE>>
       /\ reqs = <<>>
       /\ Finished
       /\ ret = <<>>
       /\ collected_data[call.p] = <<>>
  /\ (pc = "exit" /\ exit_code = 0 /\ args.platform = "all"
        /\ \E p \in Platforms : BadCredentials(p)) =>
       attempted = AllPlatforms

\* C8: a collect call authenticates only when the adapter has no client
\* handle; a handle once set stays set, so no later call authenticates; a
\* failed authentication leaves the handle unset and the next call, finding
\* no handle, authenticates.
C8_LazyAuthentication ==
  [][ /\ Len(authLog') > Len(authLog) => ~handle[call.p]
      /\ \A p \in Platforms : handle[p] => handle'[p]
      /\ (Len(authLog') > Len(authLog) /\ ~authLog'[Len(authLog')])
           => ~handle'[call.p]
      /\ (cpc = "enter" /\ cpc' # "enter" /\ ~handle[call.p])
           => Len(authLog') = Len(authLog) + 1
      /\ Len(authLog') <= 1 ]_vars

\* a later call on an authenticated adapter went upstream without
\* authenticating
C8_Witness ==
  /\ ncalls >= 2
  /\ Finished
  /\ handle[call.p]
  /\ authLog = <<>>
  /\ reqs # <<>>

\* C9: a platform=all run attempts video, microblog, forum in that order,
\* each whatever happened to the earlier ones, and ends in the summary.
C9_AttemptedInOrder ==
  /\ \A i \in 1..Len(attempted) : attempted[i] = platforms(args)[i]
  /\ (pc = "exit" /\ exit_code = 0) => attempted = platforms(args)

\* C9: in every platform=all run the attempted platforms are always a prefix
\* of video, microblog, forum, and the run, once in the loop, reaches the
\* summary with exit status 0 having attempted all three.
C9_AllPlatformsAttempted ==
  /\ []C9_AttemptedInOrder
  /\ (pc = "loop") ~> (pc = "exit" /\ exit_code = 0)

\* a platform=all run ended after the first platform saved nothing
C9_Witness ==
  /\ pc = "exit"
  /\ exit_code = 0
  /\ args.platform = "all"
  /\ attempted = AllPlatforms
  /\ ~StatsOf("youtube")
  /\ StatsOf("reddit")

\* C10: a batch file is written for a platform only if its collect call
\* returned a record; a platform that returned none writes no file and adds
\* no statistics entry.
C10_NoFileWithoutRecords ==
  /\ (JustCollected /\ ret = <<>>) => ~FileOf(call.p) /\ ~StatsOf(call.p)
  /\ \A i \in 1..Len(files) : files[i].n_records > 0
  /\ \A i \in 1..Len(all_stats) : all_stats[i].total_collected > 0

\* of three platforms only the first returned records and wrote a file
C10_Witness ==
  /\ pc = "exit"
  /\ args.platform = "all"
  /\ Len(files) = 1
  /\ Len(all_stats) = 1
  /\ files[1].platform = "youtube"
  /\ ret = <<>>

UnsetVars == {v \in DOMAIN Config : Config[v] = None}

\* C11: when a credential variable of any platform, selected or not, is
\* unset, configuration validation names every unset variable and ends the
\* run with status 1 before any adapter is built or any request is issued.
C11_MissingCredentialsHaltFirst ==
  UnsetVars # {} =>
    /\ UnsetVars \subseteq Range(validate_config(Config))
    /\ pc \in {"validate_args", "validate_config", "exit"}
    /\ pc = "exit" => exit_code = 1
    /\ attempted = <<>>
    /\ call = NoCall
    /\ reqs = <<>>
    /\ \A p \in Platforms : ~handle[p]

\* a video run ended at configuration validation because one forum variable
\* is unset, the video key being set
C11_Witness ==
  /\ pc = "exit"
  /\ exit_code = 1
  /\ validate_args(args) = <<>>
  /\ args.platform = "youtube"
  /\ UnsetVars = {"REDDIT_CLIENT_ID"}

\* C12: the process ends with a non-zero status exactly when argument
\* validation or configuration validation fails; every other run ends with
\* status 0.
C12_NonZeroOnlyForValidation ==
  pc = "exit" =>
    /\ exit_code \in {0, 1}
    /\ exit_code # 0 <=>
         (validate_args(args) # <<>> \/ validate_config(Config) # <<>>)

\* the identifier collect_data hands to the adapter of platform p is missing
MissingId(a, p) ==
  CASE p = "youtube" -> a.video_id = None
    [] p = "twitter" -> a.username = None /\ a.tweet_id = None
    [] p = "reddit"  -> a.post_id = None

\* C13: in id mode a run in which the identifier of a platform to collect is
\* missing is rejected by argument validation: status 1, nothing attempted;
\* for platform=all as for a single platform.
C13_MissingIdRejected ==
  (args.mode = "id" /\ \E p \in Range(platforms(args)) : MissingId(args, p))
    => /\ attempted = <<>>
       /\ pc \in {"validate_args", "exit"}
       /\ pc = "exit" => exit_code = 1

\* the walk over the batch directory has ended
Walked == mpc \in {"save", "merge", "done"} /\ directory.exists

\* the lines of the batch files, in the order of the directory listing
AllLines ==
  Concat([i \in 1..Len(directory.files) |->
            IF directory.files[i].suffix = ".jsonl"
            THEN [j \in 1..Len(directory.files[i].lines) |->
                    [file |-> i, line |-> j]]
            ELSE <<>>])

LineAt(k) == directory.files[lineLog[k].file].lines[lineLog[k].line]

RowsBefore(k) == IF k = 1 THEN 0 ELSE lineLog[k - 1].nrows

IsText(v) == v.type = "str" /\ strip(v.s) # <<>>

\* the line is a JSON object whose text (text_raw, or text, or content,
\* whichever the object has first) is not empty
ObjectWithText(line) ==
  /\ json_loads(line).is_dict
  /\ IsText(extract_text(json_loads(line).members))

\* C14: a malformed line makes no row and stops nothing: every line of every
\* batch file is read, in order, and every line that is a JSON object with
\* non-empty text makes exactly one row, whatever lines precede it.
C14_MalformedLinesSkipped ==
  Walked =>
    /\ Len(lineLog) = Len(AllLines)
    /\ \A k \in 1..Len(lineLog) :
         /\ lineLog[k].file = AllLines[k].file
         /\ lineLog[k].line = AllLines[k].line
         /\ lineLog[k].nrows =
              RowsBefore(k) + (IF ObjectWithText(LineAt(k)) THEN 1 ELSE 0)
    /\ Len(processed_data) =
         Cardinality({k \in 1..Len(lineLog) : ObjectWithText(LineAt(k))})
    /\ dfs.jsonl = processed_data

\* a malformed line was followed by a line that made a row
C14_Witness ==
  /\ Walked
  /\ Len(lineLog) = 2
  /\ lineLog[1].outcome = "JSONDecodeError"
  /\ lineLog[2].outcome = "row"
  /\ lineLog[2].file = 1
  /\ Len(processed_data) = 1

TextFields == <<"text_raw", "text", "content">>

\* the text fields of an object, in order, that meet a condition
FieldsThat(members, Cond(_)) ==
  SelectSeq(TextFields, LAMBDA f : Cond(get(members, f, NaN)))

Present(v) == v # NaN

\* C15: a parsed record makes a row whenever one of text_raw, text, content
\* holds non-empty text, and the text of the row is the trimmed value of the
\* first of the three that does.
C15_FirstFilledFieldWins ==
  \A k \in 1..Len(lineLog) :
    LET data == json_loads(LineAt(k))
        filled == FieldsThat(data.members, IsText)
    IN (data.is_dict /\ filled # <<>>) =>
         /\ lineLog[k].outcome = "row"
         /\ processed_data[lineLog[k].nrows].text =
              JStr(strip(get(data.members, filled[1], NaN).s))

\* C15, amended: a parsed record makes a row exactly when the first of
\* text_raw, text, content that the record has holds non-empty text, and the
\* text of the row is the trimmed value of that field.
C15_FirstPresentFieldWins ==
  \A k \in 1..Len(lineLog) :
    LET data == json_loads(LineAt(k))
        present == FieldsThat(data.members, Present)
    IN data.is_dict =>
         /\ lineLog[k].outcome = "row" <=>
              (present # <<>> /\ IsText(get(data.members, present[1], NaN)))
         /\ lineLog[k].outcome = "row" =>
              processed_data[lineLog[k].nrows].text =
                JStr(strip(get(data.members, present[1], NaN).s))

\* a record without text_raw made a row with the trimmed text of its text
\* field, its content field being filled too
C15_Witness ==
  /\ Len(lineLog) >= 1
  /\ LineAt(1) = ObjectLine(UsualIds, None, "text", "text")
  /\ lineLog[1].outcome = "row"
  /\ processed_data[1].text = JStr(<<"t">>)

RowsOfFile(i) ==
  Cardinality({k \in 1..Len(lineLog) :
                 lineLog[k].file = i /\ lineLog[k].outcome = "row"})

\* C16: a buffer of n records saved in the line-delimited format is n
\* physical lines, each a complete JSON object, and the reader of the batch
\* directory makes one row for every saved record with non-empty text.
C16_SavedBatchRoundTrip ==
  Walked =>
    \A i \in 1..Len(directory.files) :
      \A n \in 1..MaxLines :
        \A b \in BuffersOfLen(n) :
          directory.files[i].lines = to_json(b, Indent) =>
            /\ Len(directory.files[i].lines) = n
            /\ \A j \in 1..Len(directory.files[i].lines) :
                 json_loads(directory.files[i].lines[j]).is_dict
            /\ RowsOfFile(i) =
                 Cardinality({j \in 1..n : strip(b[j].text_raw) # <<>>})

\* the rows an origin holds when it can be loaded, none when it cannot
RowsOfExcel ==
  IF origins.excel.status = "ok"
  THEN [i \in 1..Len(origins.excel.rows) |-> excel_row(origins.excel.rows[i])]
  ELSE <<>>

RowsOfArsas ==
  IF origins.arsas.status = "ok"
  THEN [i \in 1..Len(origins.arsas.rows) |-> arsas_row(origins.arsas.rows[i])]
  ELSE <<>>

RowsOfTsac ==
  IF origins.tsac.status = "ok"
  THEN [i \in 1..Len(origins.tsac.rows) |-> tsac_row(origins.tsac.rows[i])]
  ELSE <<>>

RowsOfDirectory ==
  Concat([k \in 1..Len(AllLines) |->
            line_result(
              directory.files[AllLines[k].file].lines[AllLines[k].line],
              NaN).rows])

RowsOfLoaded == RowsOfExcel \o RowsOfArsas \o RowsOfTsac \o RowsOfDirectory

\* C17: an origin that fails to load is skipped, the rows of the origins
\* that did load are merged and written; nothing is written only when every
\* origin fails or is empty.
C17_FailedOriginSkipped ==
  (mpc = "done" /\ RowsOfLoaded # <<>>) =>
    /\ written # "none"
    /\ final_df = dedup_and_clean(RowsOfLoaded)

\* C18: no two rows of the final table have texts that are equal after
\* trimming.
C18_UniqueTrimmedTexts ==
  (mpc = "done" /\ written \in {"xlsx", "csv"}) =>
    \A i, j \in 1..Len(final_df) :
      i # j => strip(final_df[i].text.s) # strip(final_df[j].text.s)

\* the merge ran to its end and handed a table to the writer
Merged == mpc = "done" /\ written # "none"

\* the four tables one after the other, missing labels filled with 0
Cat ==
  LET c == dfs.excel \o dfs.arsas \o dfs.tsac \o dfs.jsonl IN
  [i \in 1..Len(c) |->
     [source |-> c[i].source, source_id |-> c[i].source_id,
      text |-> c[i].text,
      label |-> IF c[i].label = NaN THEN JNum(0) ELSE c[i].label]]

FirstAt(t) ==
  CHOOSE i \in 1..Len(Cat) :
    Cat[i].text = t /\ \A j \in 1..(i - 1) : Cat[j].text # t

\* C19: the final table is made from the tables of the spreadsheet, the
\* first hosted corpus, the second hosted corpus and the batch directory, in
\* that order and each in its own row order; of every text the first row
\* with it is the one kept, with its source, source_id and label, and the
\* kept rows stand in the order they had.
C19_FirstOccurrenceKept ==
  Merged =>
    /\ \A i \in 1..Len(dfs.excel) :
         dfs.excel[i].text = origins.excel.rows[i].post
    /\ \A i \in 1..Len(dfs.arsas) :
         dfs.arsas[i].text = origins.arsas.rows[i].Tweet_text
    /\ \A i \in 1..Len(dfs.tsac) :
         dfs.tsac[i].text = origins.tsac.rows[i].sentence
    /\ dfs.jsonl = RowsOfDirectory
    /\ \A k \in 1..Len(final_df) :
         /\ \E i \in 1..Len(Cat) : Cat[i].text = final_df[k].text
         /\ final_df[k] = Cat[FirstAt(final_df[k].text)]
    /\ \A k, l \in 1..Len(final_df) :
         k < l => FirstAt(final_df[k].text) < FirstAt(final_df[l].text)
    /\ \A i \in 1..Len(Cat) :
         Len(strip(Cat[i].text.s)) > MinTextLen =>
           \E k \in 1..Len(final_df) : final_df[k].text = Cat[i].text

\* a text of the spreadsheet stands again in the first hosted corpus with
\* another label, and the row kept is the one of the spreadsheet
C19_Witness ==
  /\ Merged
  /\ Len(final_df) >= 1
  /\ final_df[1].source = JName("youtube")
  /\ \E i \in 2..Len(Cat) :
       /\ Cat[i].text = final_df[1].text
       /\ Cat[i].source = JName("twitter")
       /\ Cat[i].label # final_df[1].label

\* C20: deduplicating and cleaning is idempotent: on a table put twice one
\* after the other it gives the rows it gives on the table, and on its own
\* result it changes nothing.
C20_DedupIdempotent ==
  Merged =>
    /\ dedup_and_clean(concat(dfs) \o concat(dfs)) = final_df
    /\ dedup_and_clean(final_df) = final_df

\* a table with a repeated text and a text that stands once was merged
C20_Witness ==
  /\ Merged
  /\ Len(final_df) >= 2
  /\ Len(final_df) < Len(concat(dfs))
  /\ \E i, j \in 1..Len(Cat) :
       i < j /\ Cat[i].text = Cat[j].text /\ Cat[i].text = final_df[1].text

\* what was read of every row of the concatenated table: the origin it came
\* from and the label it had there (the batch files have none)
LabelsRead ==
  [i \in 1..Len(RowsOfExcel) |->
     [origin |-> "excel", label |-> origins.excel.rows[i].label]]
  \o [i \in 1..Len(RowsOfArsas) |->
        [origin |-> "arsas", label |-> origins.arsas.rows[i].label]]
  \o [i \in 1..Len(RowsOfTsac) |->
        [origin |-> "tsac", label |-> origins.tsac.rows[i].label]]
  \o [i \in 1..Len(dfs.jsonl) |-> [origin |-> "jsonl", label |-> NaN]]

\* the label words of the three mappings, in small letters
KnownLabels ==
  { <<"a", "n", "g", "e", "r">>, <<"d", "i", "s", "g", "u", "s", "t">>,
    <<"f", "e", "a", "r">>, <<"p", "e", "s", "s", "i", "m", "i", "s", "m">>,
    <<"s", "a", "d", "n", "e", "s", "s">>,
    <<"h", "a", "p", "p", "i", "n", "e", "s", "s">>,
    <<"o", "p", "t", "i", "m", "i", "s", "m">>,
    <<"a", "n", "t", "i", "c", "i", "p", "a", "t", "i", "o", "n">>,
    <<"c", "o", "n", "f", "u", "s", "i", "o", "n">>,
    <<"n", "e", "u", "t", "r", "a", "l">>,
    <<"s", "u", "r", "p", "r", "i", "s", "e">>,
    positive, <<"p", "o", "s">>, negative, <<"n", "e", "g">>,
    <<"m", "i", "x", "e", "d">> }

\* a label that is missing or that no mapping knows in any spelling
UnknownLabel(l) == l = NaN \/ lower(strip(l.s)) \notin KnownLabels

\* C21: whatever the label of a row was in its origin (a known word, an
\* unknown word, none), its label in the final table is 0, 1 or 2, and it is
\* 0 when the label was unknown or missing.
C21_LabelsAreClasses ==
  Merged =>
    /\ Len(LabelsRead) = Len(Cat)
    /\ \A k \in 1..Len(final_df) :
         /\ final_df[k].label \in {JNum(0), JNum(1), JNum(2)}
         /\ UnknownLabel(LabelsRead[FirstAt(final_df[k].text)].label)
              => final_df[k].label = JNum(0)

\* the final table holds a row whose label was missing and a row whose
\* label was a word no mapping knows
C21_Witness ==
  /\ Merged
  /\ \E k, l \in 1..Len(final_df) :
       /\ LabelsRead[FirstAt(final_df[k].text)].label = NaN
       /\ LabelsRead[FirstAt(final_df[l].text)].label # NaN
       /\ UnknownLabel(LabelsRead[FirstAt(final_df[l].text)].label)

\* the spellings of a label that differ from it in the case of letters only
Spellings(l) ==
  { w \in {l.s, lower(l.s), positive, Positive, negative, Negative} :
      lower(w) = lower(l.s) }

\* C22: in each of the three labelled origins, label words that differ only
\* in the case of their letters are given the same class.
C22_LabelCaseIgnored ==
  /\ \A i \in 1..Len(dfs.excel) :
       LET row == origins.excel.rows[i] IN
       row.label # NaN =>
         \A w \in Spellings(row.label) :
           excel_row([row EXCEPT !.label = JStr(w)]).label
             = dfs.excel[i].label
  /\ \A i \in 1..Len(dfs.arsas) :
       LET item == origins.arsas.rows[i] IN
       \A w \in Spellings(item.label) :
         arsas_row([item EXCEPT !.label = JStr(w)]).label = dfs.arsas[i].label
  /\ \A i \in 1..Len(dfs.tsac) :
       LET item == origins.tsac.rows[i] IN
       \A w \in Spellings(item.label) :
         tsac_row([item EXCEPT !.label = JStr(w)]).label = dfs.tsac[i].label

\* C23: no row of the final table has a text of 5 characters or fewer once
\* trimmed, and every row that deduplication keeps and whose trimmed text
\* has 6 characters or more is in the final table.
C23_ShortTextsDropped ==
  Merged =>
    /\ \A k \in 1..Len(final_df) : Len(strip(final_df[k].text.s)) > 5
    /\ \A i \in 1..Len(Cat) :
         (i = FirstAt(Cat[i].text) /\ Len(strip(Cat[i].text.s)) >= 6)
           => \E k \in 1..Len(final_df) : final_df[k] = Cat[i]

\* a text of exactly 5 characters was read and is not in the final table,
\* and a text of exactly 6 characters is
C23_Witness ==
  /\ Merged
  /\ \E i \in 1..Len(Cat) :
       /\ Len(strip(Cat[i].text.s)) = 5
       /\ \A k \in 1..Len(final_df) : final_df[k].text # Cat[i].text
  /\ \E k \in 1..Len(final_df) : Len(strip(final_df[k].text.s)) = 6

\* the normalizer run on the two files of the scenario gives 5 rows
C24_NormalizerRows ==
  (tool = "merge_collected_data" /\ directory = ScenarioDirectory
     /\ mpc = "done")
    => Len(final_df) = 5

\* a merge of the two files of the scenario with no corpus to be had: the
\* hosted corpora cannot be loaded, the spreadsheet is missing, unreadable
\* or without rows
ScenarioMerge ==
  /\ tool = "merge_datasets"
  /\ directory = ScenarioDirectory
  /\ origins.arsas.status = "failed"
  /\ origins.tsac.status = "failed"
  /\ origins.excel.rows = <<>>

\* C24: of the two batch files of the scenario the normalizer makes 5 rows,
\* and the merge run with no corpus available makes 4 rows, all with
\* label 0.
C24_EndToEnd ==
  /\ C24_NormalizerRows
  /\ (ScenarioMerge /\ mpc = "done")
       => /\ Len(final_df) = 4
          /\ \A k \in 1..Len(final_df) : final_df[k].label = JNum(0)

\* the same merge when the corpora load but hold no rows gives the 4 rows
C24_EmptyCorpora ==
  (/\ tool = "merge_datasets" /\ directory = ScenarioDirectory
   /\ mpc = "done" /\ written # "none"
   /\ origins.excel.rows = <<>> /\ origins.arsas.rows = <<>>
   /\ origins.tsac.rows = <<>>)
    => /\ Len(final_df) = 4
       /\ \A k \in 1..Len(final_df) : final_df[k].label = JNum(0)

C24_EmptyCorporaMerged ==
  /\ directory = ScenarioDirectory
  /\ Merged
  /\ origins.excel.rows = <<>>
  /\ Len(final_df) = 4

\* the searches of a keyword call that were issued, by index in reqs
Searches == {i \in 1..Len(reqs) : reqs[i].kind \in {"search", "search_tweets"}}

\* C25: in keyword mode of every adapter, when the search for a keyword
\* fails the searches for the other keywords of the call are issued all the
\* same.
C25_SearchFailureContained ==
  (/\ Finished
   /\ call.op = "keywords"
   /\ \E i \in Searches : reqs[i].result = "error")
    => \A k \in 1..Len(call.keywords) :
         \E i \in Searches : reqs[i].target = call.keywords[k]

\* the same of the video and the microblog adapter alone
C25_VideoAndMicroblog ==
  call.p \in {"youtube", "twitter"} => C25_SearchFailureContained

\* the by-ID call of the video adapter made at most limit page requests
PagesBounded ==
  (call.p = "youtube" /\ call.op = "id") =>
    /\ \A i \in 1..Len(reqs) : reqs[i].kind = "commentThreads"
    /\ Len(reqs) <= call.limit
    /\ \A i \in 1..(Len(reqs) - 1) : reqs[i].result = "ok"

\* a page request asks for min(100, limit - collected so far) items; the
\* loop ends at a page that fails or brings nothing, and goes on only with
\* more records than before
PageStep ==
  cpc = "yt_page" =>
    /\ Len(reqs') = Len(reqs) + 1
    /\ reqs'[Len(reqs')].ask =
         (IF call.limit - Len(vcomments) < 100
          THEN call.limit - Len(vcomments) ELSE 100)
    /\ (reqs'[Len(reqs')].result = "error" \/ vcomments' = vcomments)
         => cpc' = "yt_end"
    /\ cpc' = "yt_page" =>
         Len(vcomments) < Len(vcomments') /\ Len(vcomments') < call.limit

C26_FullPageAsked ==
  /\ call.limit > 100
  /\ \E i \in 1..Len(reqs) : reqs[i].ask = 100

\* C27: whatever the keywords and whatever the searches answer, the
\* discovery step of the video adapter brings at most 10 candidate videos,
\* also when keywords are left to search once the 10 are reached.
C27_AtMostTenCandidates ==
  (call.p = "youtube" /\ call.op = "keywords") => Len(found) <= 10

\* a step leaves the buffers alone, but the one that ends a call: it puts
\* the records the call returns behind those its adapter held
BufferStep ==
  IF cpc # "idle" /\ cpc' = "idle"
  THEN collected_data' =
         [collected_data EXCEPT ![call.p] = @ \o ret']
  ELSE collected_data' = collected_data

\* C28: after any calls of collect_by_id and collect_by_keywords on an
\* adapter its buffer is the lists the calls returned, one after the other
\* in the order of the calls; a call that returns nothing leaves it as it
\* was, and total_collected of get_stats is its length.
C28_BufferIsReturnedRecords ==
  /\ [][BufferStep]_vars
  /\ [](\A p \in Platforms :
          get_stats(p, collected_data[p]).total_collected
            = Len(collected_data[p]))

\* the third call on an adapter returned nothing and the records of the
\* two calls before it are in the buffer
C28_Witness ==
  /\ Finished
  /\ ncalls = 3
  /\ ret = <<>>
  /\ Len(collected_data[call.p]) = 2

\* the members of the objects that stand one on a line
ObjectsOf(lines) == [i \in 1..Len(lines) |-> json_loads(lines[i]).members]

\* every line is an object
OneObjectPerLine(lines) ==
  \A i \in 1..Len(lines) :
    ~json_loads(lines[i]).error /\ json_loads(lines[i]).is_dict

\* C29: quick_fix_jsonl writes every well-formed object of its input, in
\* order, whether the object stands on one line or on several; on a file
\* with one object on every line, such as a file it wrote, it writes the
\* same objects.
C29_FixPreservesObjects ==
  /\ (tool = "fix_jsonl" /\ mpc \in {"refix", "done"}
        /\ OneObjectPerLine(directory.files[1].lines))
       => ObjectsOf(processed_data) = ObjectsOf(directory.files[1].lines)
  /\ (tool = "fix_jsonl" /\ mpc = "done") => final_df = processed_data

\* of a file written by save_data, with every record on several lines,
\* quick_fix_jsonl writes one object for every record
C29_SavedFileRepaired ==
  (tool = "fix_jsonl" /\ mpc \in {"refix", "done"}) =>
    \A n \in 1..MaxLines : \A b \in BuffersOfLen(n) :
      directory.files[1].lines = to_json(b, Indent)
        => ObjectsOf(processed_data) =
             [i \in 1..n |-> record_members(b[i])]

\* platform=all runs; the run is one sequential process, so that a step
\* that can be taken is taken
AllInit == Init /\ args.platform = "all"
AllFairSpec == AllInit /\ [][Next]_vars /\ WF_vars(Next)

====
